---- MODULE Spec2Model ----
(***************************************************************************)
(* Model of the command-line parser of the shell (src/src/args.rs):        *)
(*   process_args = process_args_inner (starts_with check, split_args,     *)
(*   post_process_args, split_pipeline) followed by Command::new on every  *)
(*   stage.  A line is a sequence of characters; a slice of a line takes   *)
(*   byte offsets, and every character but Wide is one byte wide.          *)
(***************************************************************************)
EXTENDS Integers, Sequences, FiniteSets, TLC

\* ------------------------------------------------------------------ bounds
MaxLen == 5
MaxWords == 4
MaxStages == 3
MaxReplStages == 2
MaxPathLen == 2
MaxHistory == 3
MaxLiveStages == 2

\* -------------------------------------------------------------- characters
SQ == "'"
DQ == "\""
BS == "\\"
SP == " "
PIPE == "|"
TAB == "\t"
\* a character whose UTF-8 encoding is two bytes long
Wide == "W"

\* the line alphabet: two plain characters, the five characters the parser
\* singles out, and the tab, a character that char::is_whitespace takes for
\* whitespace and Character::map for Other (read_line_loop pushes a pasted
\* string and a recalled history line as they are)
Alphabet == {"a", "b", SQ, DQ, BS, SP, PIPE, TAB}

\* char::is_whitespace, on the alphabet
IsWhitespace(c) == c \in {SP, TAB}

\* Character::map
CharacterMap(c) ==
    CASE c = SQ -> "SingleQuote"
      [] c = DQ -> "DoubleQuote"
      [] c = SP -> "WhiteSpace"
      [] c = PIPE -> "Pipe"
      [] OTHER -> "Other"

\* -------------------------------------------------------------- the errors
NoError == "none"
ParseErrors == {"PipeAtBeginning", "PipeAtEnd", "PipeFollwingPipe",
                "MissingEndDoubleQuote", "MissingEndSingleQuote", "MissingCommand"}
\* unimplemented!() / unreachable!() / a failed slice
Panic == "panic"

\* ------------------------------------------------------------------ slices
\* &v[from..to] on a Vec, with 0-based indexes, to exclusive
Slice(s, from, to) == SubSeq(s, from + 1, to)

\* char::len_utf8
len_utf8(c) == IF c = Wide THEN 2 ELSE 1

\* the byte offset of the character of index k, counted from 0
RECURSIVE ByteOffset(_, _)
ByteOffset(s, k) == IF k = 0 THEN 0 ELSE ByteOffset(s, k - 1) + len_utf8(s[k])

\* str::len
ByteLen(s) == ByteOffset(s, Len(s))

\* str::is_char_boundary
IsCharBoundary(s, b) == \E k \in 0..Len(s) : ByteOffset(s, k) = b

\* the index of the character that starts at the byte offset b
CharIndex(s, b) == CHOOSE k \in 0..Len(s) : ByteOffset(s, k) = b

\* a slice that panics
SliceFailed == <<Panic>>

\* &s[from..to] on a str, with byte offsets, to exclusive: it panics unless
\* both offsets are character boundaries of s
StrSlice(s, from, to) ==
    IF from <= to /\ IsCharBoundary(s, from) /\ IsCharBoundary(s, to)
    THEN SubSeq(s, CharIndex(s, from) + 1, CharIndex(s, to))
    ELSE SliceFailed

\* &s[from..]
StrSliceFrom(s, from) == StrSlice(s, from, ByteLen(s))

\* let input = input.trim(): no whitespace at either end of the line
IsTrimmed(s) == s = << >> \/ (~IsWhitespace(s[1]) /\ ~IsWhitespace(s[Len(s)]))

SeqsUpTo(S, n) == UNION {[1..k -> S] : k \in 0..n}

\* --------------------------------------------------------------- split_args
\* the tokenizer's loop state: position of the window iterator, current_block,
\* last_idx, res, and the error of an early return
SplitInit == [i |-> 0, cb |-> "WhiteSpace", last |-> 0, res |-> << >>, err |-> NoError]

\* the backslash branch: the pair is skipped; a token starts if none was open
SplitBackslash(st) ==
    IF st.cb = "WhiteSpace"
    THEN [st EXCEPT !.cb = "Other", !.last = st.i, !.i = st.i + 2]
    ELSE [st EXCEPT !.i = st.i + 2]

\* a closing quote ends the token only when whitespace follows it
QuoteContinues(c2) == ~IsWhitespace(c2)

\* (SingleQuote, SingleQuote) and (DoubleQuote, DoubleQuote)
SplitCloseQuote(line, st, c2) ==
    IF QuoteContinues(c2)
    THEN [st EXCEPT !.cb = "Other"]
    ELSE [st EXCEPT !.res = Append(@, StrSlice(line, st.last, st.i + 1)),
                    !.cb = "WhiteSpace"]

\* (WhiteSpace, _) with last_idx left where the token before began
SplitInWhiteSpace_StaleStart(st, m) ==
    IF m = "WhiteSpace" THEN st
    ELSE [st EXCEPT !.cb = m]

\* (WhiteSpace, _): any character but the space opens a token of its class
SplitInWhiteSpace(st, m) ==
    IF m = "WhiteSpace" THEN st
    ELSE [st EXCEPT !.cb = m, !.last = st.i]

\* (Other, _) with the (Other, Pipe) arm lost: a pipe inside a word is a
\* word character
SplitInOther_PipeInWord(line, st, m) ==
    CASE m = "SingleQuote" -> [st EXCEPT !.cb = "SingleQuote"]
      [] m = "DoubleQuote" -> [st EXCEPT !.cb = "DoubleQuote"]
      [] m = "WhiteSpace" ->
            [st EXCEPT !.res = Append(@, StrSlice(line, st.last, st.i)),
                       !.cb = "WhiteSpace"]
      [] OTHER -> st

\* (Other, _)
SplitInOther(line, st, m) ==
    CASE m = "SingleQuote" -> [st EXCEPT !.cb = "SingleQuote"]
      [] m = "DoubleQuote" -> [st EXCEPT !.cb = "DoubleQuote"]
      [] m = "WhiteSpace" ->
            [st EXCEPT !.res = Append(@, StrSlice(line, st.last, st.i)),
                       !.cb = "WhiteSpace"]
      [] m = "Pipe" ->
            [st EXCEPT !.res = Append(@, StrSlice(line, st.last, st.i)),
                       !.cb = "Pipe", !.last = st.i]
      [] OTHER -> st

\* (Pipe, _)
SplitInPipe(line, st, m) ==
    IF m = "Pipe"
    THEN [st EXCEPT !.err = "PipeFollwingPipe"]
    ELSE [st EXCEPT !.res = Append(@, StrSlice(line, st.last, st.i)),
                    !.cb = m, !.last = st.i]

\* the match on (current_block, Character::map(c1))
SplitMatch(line, st, c1, c2) ==
    LET m == CharacterMap(c1) IN
    CASE st.cb \in {"SingleQuote", "DoubleQuote"} ->
            IF m = st.cb THEN SplitCloseQuote(line, st, c2) ELSE st
      [] st.cb = "WhiteSpace" -> SplitInWhiteSpace(st, m)
      [] st.cb = "Other" -> SplitInOther(line, st, m)
      [] st.cb = "Pipe" -> SplitInPipe(line, st, m)

\* the while loop over args_raw.chars().chain([' ']).tuple_windows().enumerate()
RECURSIVE SplitLoop(_, _)
SplitLoop(line, st) ==
    IF st.i >= Len(line) \/ st.err # NoError THEN st
    ELSE LET c1 == line[st.i + 1]
             c2 == IF st.i + 2 <= Len(line) THEN line[st.i + 2] ELSE SP
         IN IF c1 = BS
            THEN SplitLoop(line, SplitBackslash(st))
            ELSE LET r == SplitMatch(line, st, c1, c2)
                 IN SplitLoop(line, [r EXCEPT !.i = st.i + 1])

\* the match on current_block after the loop, a dangling pipe accepted
SplitEnd_PipeAccepted(line, st) ==
    CASE st.err # NoError -> st
      [] st.cb = "SingleQuote" -> [st EXCEPT !.err = "MissingEndSingleQuote"]
      [] st.cb = "DoubleQuote" -> [st EXCEPT !.err = "MissingEndDoubleQuote"]
      [] st.cb = "Other" ->
            [st EXCEPT !.res = Append(@, StrSliceFrom(line, st.last))]
      [] OTHER -> st

\* the match on current_block after the loop, the two quote errors swapped
SplitEnd_QuotesSwapped(line, st) ==
    CASE st.err # NoError -> st
      [] st.cb = "SingleQuote" -> [st EXCEPT !.err = "MissingEndDoubleQuote"]
      [] st.cb = "DoubleQuote" -> [st EXCEPT !.err = "MissingEndSingleQuote"]
      [] st.cb = "Pipe" -> [st EXCEPT !.err = "PipeAtEnd"]
      [] st.cb = "Other" ->
            [st EXCEPT !.res = Append(@, StrSliceFrom(line, st.last))]
      [] OTHER -> st

\* the match on current_block after the loop
SplitEnd(line, st) ==
    CASE st.err # NoError -> st
      [] st.cb = "SingleQuote" -> [st EXCEPT !.err = "MissingEndSingleQuote"]
      [] st.cb = "DoubleQuote" -> [st EXCEPT !.err = "MissingEndDoubleQuote"]
      [] st.cb = "Pipe" -> [st EXCEPT !.err = "PipeAtEnd"]
      [] st.cb = "Other" ->
            [st EXCEPT !.res = Append(@, StrSliceFrom(line, st.last))]
      [] OTHER -> st

\* split_args: [res, err]; a slice that fails ends the call with a panic
split_args(line) ==
    LET st == SplitEnd(line, SplitLoop(line, SplitInit)) IN
    IF \E k \in 1..Len(st.res) : st.res[k] = SliceFailed
    THEN [st EXCEPT !.res = << >>, !.err = Panic]
    ELSE st

\* -------------------------------------------------------- post_process_args
\* Option<char>::None
NoChar == "None"

\* the first loop: the index of the first window whose first character is a
\* quote or a backslash (processing_required), -1 for None
RECURSIVE ProcessingRequired(_, _)
ProcessingRequired(arg, i) ==
    IF i > Len(arg) - 2 THEN -1
    ELSE IF arg[i + 1] \in {SQ, DQ, BS} THEN i
    ELSE ProcessingRequired(arg, i + 1)

\* the second loop's state: position of the window iterator, current_context,
\* the output string, last_char, and a panic
UnescapeInit(arg, c) ==
    [i |-> c, ctx |-> "WhiteSpace", s |-> StrSlice(arg, 0, c), last |-> arg[c + 2],
     err |-> NoError]

\* last_char = it.next().map(|(_, (_, x))| x)
NextIntoLastChar(arg, st) ==
    IF st.i <= Len(arg) - 2
    THEN [st EXCEPT !.last = arg[st.i + 2], !.i = st.i + 1]
    ELSE [st EXCEPT !.last = NoChar]

\* it.next(); with the result dropped
NextDropped(arg, st) ==
    IF st.i <= Len(arg) - 2 THEN [st EXCEPT !.i = st.i + 1] ELSE st

\* ('\'', _)
UnescapeSingleQuote(st) ==
    CASE st.ctx = "SingleQuote" -> [st EXCEPT !.ctx = "WhiteSpace"]
      [] st.ctx = "DoubleQuote" -> [st EXCEPT !.s = Append(@, SQ)]
      [] st.ctx = "WhiteSpace" -> [st EXCEPT !.ctx = "SingleQuote"]
      [] OTHER -> [st EXCEPT !.err = Panic]

\* ('"', _) with the push of the SingleQuote arm lost
UnescapeDoubleQuote_Dropped(st) ==
    CASE st.ctx = "SingleQuote" -> st
      [] st.ctx = "DoubleQuote" -> [st EXCEPT !.ctx = "WhiteSpace"]
      [] st.ctx = "WhiteSpace" -> [st EXCEPT !.ctx = "DoubleQuote"]
      [] st.ctx = "Other" -> st
      [] OTHER -> [st EXCEPT !.err = Panic]

\* ('"', _)
UnescapeDoubleQuote(st) ==
    CASE st.ctx = "SingleQuote" -> [st EXCEPT !.s = Append(@, DQ)]
      [] st.ctx = "DoubleQuote" -> [st EXCEPT !.ctx = "WhiteSpace"]
      [] st.ctx = "WhiteSpace" -> [st EXCEPT !.ctx = "DoubleQuote"]
      [] st.ctx = "Other" -> st
      [] OTHER -> [st EXCEPT !.err = Panic]

\* ('\\', '\\') with both backslashes kept
BackslashBackslash_Kept(arg, st) ==
    NextIntoLastChar(arg, [st EXCEPT !.s = @ \o <<BS, BS>>])

\* ('\\', '\\')
BackslashBackslash(arg, st) ==
    NextIntoLastChar(arg, [st EXCEPT !.s = Append(@, BS)])

\* ('\\', x) in Character::SingleQuote
BackslashInSingleQuote(arg, st, x) ==
    NextDropped(arg, [st EXCEPT !.s = @ \o <<BS, x>>])

\* ('\\', x) in Character::DoubleQuote, unescaping every x as outside quotes
BackslashInDoubleQuote_Unquoted(arg, st, x) ==
    NextIntoLastChar(arg, [st EXCEPT !.s = Append(@, x)])

\* ('\\', x) in Character::DoubleQuote
BackslashInDoubleQuote(arg, st, x) ==
    IF x = DQ
    THEN NextIntoLastChar(arg, [st EXCEPT !.s = Append(@, DQ)])
    ELSE NextIntoLastChar(arg, [st EXCEPT !.s = @ \o <<BS, x>>])

\* ('\\', x) in Character::WhiteSpace and Character::Other
BackslashUnquoted(arg, st, x) ==
    NextIntoLastChar(arg, [st EXCEPT !.s = Append(@, x)])

\* ('\\', x)
UnescapeBackslash(arg, st, x) ==
    CASE st.ctx = "SingleQuote" -> BackslashInSingleQuote(arg, st, x)
      [] st.ctx = "DoubleQuote" -> BackslashInDoubleQuote(arg, st, x)
      [] st.ctx \in {"WhiteSpace", "Other"} -> BackslashUnquoted(arg, st, x)
      [] OTHER -> [st EXCEPT !.err = Panic]

\* the while loop over the remaining windows of the token
RECURSIVE UnescapeLoop(_, _)
UnescapeLoop(arg, st) ==
    IF st.i > Len(arg) - 2 \/ st.err # NoError THEN st
    ELSE LET c1 == arg[st.i + 1]
             c2 == arg[st.i + 2]
             s1 == [st EXCEPT !.i = st.i + 1, !.last = c2]
         IN UnescapeLoop(arg,
                CASE c1 = SQ -> UnescapeSingleQuote(s1)
                  [] c1 = DQ -> UnescapeDoubleQuote(s1)
                  [] c1 = BS /\ c2 = BS -> BackslashBackslash(arg, s1)
                  [] c1 = BS -> UnescapeBackslash(arg, s1, c2)
                  [] OTHER -> [s1 EXCEPT !.s = Append(@, c1)])

\* the match on last_char after the loop
UnescapeEnd(st) ==
    IF st.last \in {NoChar, SQ, DQ, BS} THEN st.s ELSE Append(st.s, st.last)

\* the body of the for loop of post_process_args, for one token: [val, err]
Unescape(arg) ==
    LET c == ProcessingRequired(arg, 0) IN
    IF c = -1 THEN [val |-> arg, err |-> NoError]
    ELSE IF StrSlice(arg, 0, c) = SliceFailed THEN [val |-> arg, err |-> Panic]
    ELSE LET st == UnescapeLoop(arg, UnescapeInit(arg, c))
         IN [val |-> UnescapeEnd(st), err |-> st.err]

\* post_process_args: [res, err]
post_process_args(args) ==
    LET u == [k \in 1..Len(args) |-> Unescape(args[k])] IN
    [res |-> [k \in 1..Len(args) |-> u[k].val],
     err |-> IF \E k \in 1..Len(args) : u[k].err # NoError THEN Panic ELSE NoError]

\* ----------------------------------------------------------- split_pipeline
PipeToken == <<PIPE>>

\* split_pipeline with the stages that hold no token left out
RECURSIVE PipelineLoop_EmptyStagesDropped(_, _, _, _)
PipelineLoop_EmptyStagesDropped(args, k, res, curr) ==
    IF k > Len(args) THEN (IF curr = << >> /\ res # << >> THEN res ELSE Append(res, curr))
    ELSE IF args[k] = PipeToken
         THEN PipelineLoop_EmptyStagesDropped(args, k + 1,
                    IF curr = << >> THEN res ELSE Append(res, curr), << >>)
         ELSE PipelineLoop_EmptyStagesDropped(args, k + 1, res, Append(curr, args[k]))

\* the for loop: res is the list of finished stages, curr the open one
RECURSIVE PipelineLoop(_, _, _, _)
PipelineLoop(args, k, res, curr) ==
    IF k > Len(args) THEN Append(res, curr)
    ELSE IF args[k] = PipeToken
         THEN PipelineLoop(args, k + 1, Append(res, curr), << >>)
         ELSE PipelineLoop(args, k + 1, res, Append(curr, args[k]))

split_pipeline(args) == PipelineLoop(args, 1, << >>, << >>)

\* ------------------------------------------------- Redirect::find_redirect
NoRedirect == [kind |-> "None"]

\* the match on operator with the "2>>" arm taken for the "1>>" one
RedirectOf_StderrAppendLost(operator, file_path) ==
    CASE operator \in {<<"1", ">">>, <<">">>} ->
            [kind |-> "Some", to |-> "Stdout", append |-> FALSE, file_path |-> file_path]
      [] operator = <<"2", ">">> ->
            [kind |-> "Some", to |-> "Stderr", append |-> FALSE, file_path |-> file_path]
      [] operator \in {<<"1", ">", ">">>, <<">", ">">>, <<"2", ">", ">">>} ->
            [kind |-> "Some", to |-> "Stdout", append |-> TRUE, file_path |-> file_path]
      [] operator = PipeToken -> [kind |-> Panic]
      [] OTHER -> NoRedirect

\* the match on operator of Redirect::find_redirect
RedirectOf(operator, file_path) ==
    CASE operator \in {<<"1", ">">>, <<">">>} ->
            [kind |-> "Some", to |-> "Stdout", append |-> FALSE, file_path |-> file_path]
      [] operator = <<"2", ">">> ->
            [kind |-> "Some", to |-> "Stderr", append |-> FALSE, file_path |-> file_path]
      [] operator \in {<<"1", ">", ">">>, <<">", ">">>} ->
            [kind |-> "Some", to |-> "Stdout", append |-> TRUE, file_path |-> file_path]
      [] operator = <<"2", ">", ">">> ->
            [kind |-> "Some", to |-> "Stderr", append |-> TRUE, file_path |-> file_path]
      [] operator = PipeToken -> [kind |-> Panic]
      [] OTHER -> NoRedirect

\* the for loop with the last matching window winning
RECURSIVE find_redirect_from_Rightmost(_, _)
find_redirect_from_Rightmost(args, i) ==
    IF i > Len(args) - 2 THEN [i |-> -1, r |-> NoRedirect]
    ELSE LET r == RedirectOf(args[i + 1], args[i + 2])
             later == find_redirect_from_Rightmost(args, i + 1)
         IN IF later.r.kind # "None" \/ r.kind = "None" THEN later
            ELSE [i |-> i, r |-> r]

\* the for loop over single arguments instead of windows: an operator that
\* is the last argument redirects to an empty path
RECURSIVE find_redirect_from_LoneOperator(_, _)
find_redirect_from_LoneOperator(args, i) ==
    IF i > Len(args) - 1 THEN [i |-> -1, r |-> NoRedirect]
    ELSE LET r == RedirectOf(args[i + 1],
                             IF i + 2 <= Len(args) THEN args[i + 2] ELSE << >>)
         IN IF r.kind = "None" THEN find_redirect_from_LoneOperator(args, i + 1)
            ELSE [i |-> i, r |-> r]

\* the for loop over args.iter().tuple_windows().enumerate(): [i, r]
RECURSIVE find_redirect_from(_, _)
find_redirect_from(args, i) ==
    IF i > Len(args) - 2 THEN [i |-> -1, r |-> NoRedirect]
    ELSE LET r == RedirectOf(args[i + 1], args[i + 2])
         IN IF r.kind = "None" THEN find_redirect_from(args, i + 1)
            ELSE [i |-> i, r |-> r]

find_redirect(args) == find_redirect_from(args, 0)

\* ------------------------------------------------------------ Command::new
\* [command, args, redirect, err]
CommandNew(args) ==
    IF args = << >>
    THEN [command |-> << >>, args |-> << >>, redirect |-> NoRedirect,
          err |-> "MissingCommand"]
    ELSE LET rest == Tail(args)
             f == find_redirect(rest)
         IN CASE f.r.kind = Panic ->
                    [command |-> Head(args), args |-> << >>, redirect |-> NoRedirect,
                     err |-> Panic]
              [] f.r.kind = "Some" ->
                    [command |-> Head(args), args |-> Slice(rest, 0, f.i),
                     redirect |-> f.r, err |-> NoError]
              [] OTHER ->
                    [command |-> Head(args), args |-> rest, redirect |-> NoRedirect,
                     err |-> NoError]

\* res.into_iter().map(Command::new).collect(): the first error wins
RECURSIVE FirstError(_, _)
FirstError(cs, k) ==
    IF k > Len(cs) THEN NoError
    ELSE IF cs[k].err # NoError THEN cs[k].err
    ELSE FirstError(cs, k + 1)

\* ------------------------------------------------------- the collaborators
\* words joined by single spaces
RECURSIVE JoinWords(_)
JoinWords(ws) ==
    IF ws = << >> THEN << >>
    ELSE IF Len(ws) = 1 THEN ws[1]
    ELSE ws[1] \o <<SP>> \o JoinWords(Tail(ws))

\* command names and argument tokens of the lines that are run
Echo == <<"e", "c", "h", "o">>
Exit == <<"e", "x", "i", "t">>
Cat == <<"c", "a", "t">>
Nope == <<"n", "o", "p", "e">>

\* Builtins::supported
Supported ==
    { Exit, Echo, <<"t", "y", "p", "e">>, <<"p", "w", "d">>, <<"c", "d">>,
      <<"h", "i", "s", "t", "o", "r", "y">> }

\* Builtins::try_from
BuiltinsTryFrom(value) == IF value \in Supported THEN "Ok" ELSE "CommandNotFound"

\* the file names found in the directories of PATH
PathFiles == {Cat}

\* is_program finding a file for every name
is_program_AlwaysFound(com) == "Ok"

\* is_program
is_program(com) == IF com \in PathFiles THEN "Ok" ELSE "CommandNotFound"

\* the decimal digits and their values
DigitChars == {"0", "1", "2", "3", "4", "5", "6", "7", "8", "9"}
DigitValue(c) ==
    CASE c = "0" -> 0 [] c = "1" -> 1 [] c = "2" -> 2 [] c = "3" -> 3
      [] c = "4" -> 4 [] c = "5" -> 5 [] c = "6" -> 6 [] c = "7" -> 7
      [] c = "8" -> 8 [] OTHER -> 9

\* the digits of s accumulated below zero, as far as -2^31; 1 when a
\* character is no digit or the value has left the range of an i32
RECURSIVE Accumulate(_, _)
Accumulate(s, acc) ==
    IF s = << >> THEN acc
    ELSE IF s[1] \notin DigitChars THEN 1
    ELSE IF acc < -214748364 \/ (acc = -214748364 /\ DigitValue(s[1]) = 9) THEN 1
    ELSE Accumulate(Tail(s), acc * 10 - DigitValue(s[1]))

\* str::parse::<i32>: an optional sign and at least one digit, a value in
\* -2^31 .. 2^31 - 1
ParseI32(tok) ==
    LET signed == tok # << >> /\ tok[1] \in {"+", "-"}
        digits == IF signed THEN Tail(tok) ELSE tok
        m == IF digits = << >> THEN 1 ELSE Accumulate(digits, 0)
        neg == signed /\ tok[1] = "-"
    IN IF m = 1 \/ (~neg /\ m < -2147483647)
       THEN [ok |-> FALSE, val |-> 0]
       ELSE [ok |-> TRUE, val |-> IF neg THEN m ELSE 0 - m]

NoOutcome == [kind |-> "none", code |-> 0]
Success == [kind |-> "Ok", code |-> 0]

\* exit::run
exit_run(rest) ==
    IF rest = << >> THEN [kind |-> "MissingArgument", code |-> 0]
    ELSE IF ParseI32(rest[1]).ok
         THEN [kind |-> "Shutdown", code |-> ParseI32(rest[1]).val]
         ELSE [kind |-> "IncorrectArgumentType", code |-> 0]

\* builtin::run, on the builtins of the lines that are run: exit returns its
\* error, echo writes to stdout and returns Ok
builtin_run(com, rest) == IF com = Exit THEN exit_run(rest) ELSE Success

\* echo::run: writeln!(stdout, "{}", rest.join(" "))
echo_run(rest) == JoinWords(rest) \o <<"\n">>

\* what builtin::run writes to stdout: echo its line, exit nothing
builtin_stdout(com, rest) == IF com = Echo THEN echo_run(rest) ELSE << >>

\* Redirect<MemFile>::new_builtin handing out the real streams when the stage
\* has no redirect
new_builtin_Terminal(redirect) ==
    CASE redirect.kind = "None" -> [stdout |-> "Terminal", stderr |-> "Terminal"]
      [] redirect.to = "Stdout" -> [stdout |-> "File", stderr |-> "MemFile"]
      [] OTHER -> [stdout |-> "MemFile", stderr |-> "File"]

\* new_builtin with a stderr redirect taking the buffer away from stdout too
new_builtin_StderrRedirectTakesStdout(redirect) ==
    CASE redirect.kind = "None" -> [stdout |-> "MemFile", stderr |-> "MemFile"]
      [] redirect.to = "Stdout" -> [stdout |-> "File", stderr |-> "MemFile"]
      [] OTHER -> [stdout |-> "File", stderr |-> "File"]

\* Redirect<MemFile>::new_builtin: the two streams of a builtin
new_builtin(redirect) ==
    CASE redirect.kind = "None" -> [stdout |-> "MemFile", stderr |-> "MemFile"]
      [] redirect.to = "Stdout" -> [stdout |-> "File", stderr |-> "MemFile"]
      [] OTHER -> [stdout |-> "MemFile", stderr |-> "File"]

\* Redirect<Stdio>::is_last
StdioIsLast(is_last) == IF is_last THEN "Terminal" ELSE "Piped"

\* Redirect<Stdio>::new_program with the stdout of a stage that redirects its
\* standard error always piped
new_program_StderrRedirectPipes(redirect, is_last) ==
    CASE redirect.kind = "None" ->
            [stdout |-> StdioIsLast(is_last), stderr |-> StdioIsLast(is_last)]
      [] redirect.to = "Stdout" -> [stdout |-> "File", stderr |-> StdioIsLast(is_last)]
      [] OTHER -> [stdout |-> "Piped", stderr |-> "File"]

\* Redirect<Stdio>::new_program: the two streams of a spawned process
new_program(redirect, is_last) ==
    CASE redirect.kind = "None" ->
            [stdout |-> StdioIsLast(is_last), stderr |-> StdioIsLast(is_last)]
      [] redirect.to = "Stdout" -> [stdout |-> "File", stderr |-> StdioIsLast(is_last)]
      [] OTHER -> [stdout |-> StdioIsLast(is_last), stderr |-> "File"]

\* the exit codes a process may end with
ExitCodes == {0, 1, 2}

\* the carry: nothing, the running process of stage k, or the in-memory
\* buffer that the builtin of stage k wrote, with the position it is read from
Nothing == [kind |-> "Nothing", stage |-> 0, pos |-> "start"]
RunningProcess(k) == [kind |-> "Process", stage |-> k, pos |-> "start"]

\* the buffer of stage k left at the end of what the builtin wrote
BuiltinBuffer_NotRewound(k) == [kind |-> "Buffer", stage |-> k, pos |-> "end"]

\* the buffer of stage k, rewound to its start
BuiltinBuffer(k) == [kind |-> "Buffer", stage |-> k, pos |-> "start"]

\* Option<ExitCode>: None and Some(v)
NoShutdownCode == [kind |-> "None", code |-> 0]
SomeCode(v) == [kind |-> "Some", code |-> v]

\* no process has been spawned for the stage
NoProcess == [state |-> "none", code |-> 0, stdin |-> Nothing, stdout |-> "none",
              stderr |-> "none", wr |-> {}, rd |-> {}]

\* ----------------------------------------------------- the shell's state
\* the characters of a path: the separator and the home marker
SLASH == "/"
TILDE == "~"
DOT == "."

\* the directories that exist, by their canonical paths; HOME names one
Root == <<SLASH>>
Home == <<SLASH, "h">>
Dirs == {Root, Home, <<SLASH, "d">>}

\* Path::is_absolute
IsAbsolute(p) == p # << >> /\ p[1] = SLASH

\* PathBuf::join: an absolute path replaces the base, another one is pushed
\* behind a separator
PathJoin(base, rel) ==
    IF IsAbsolute(rel) THEN rel
    ELSE IF base[Len(base)] = SLASH THEN base \o rel
    ELSE base \o <<SLASH>> \o rel

\* the components of a path: the runs of characters between separators
RECURSIVE Components(_, _, _)
Components(p, cur, acc) ==
    IF p = << >> THEN (IF cur = << >> THEN acc ELSE Append(acc, cur))
    ELSE IF p[1] = SLASH
         THEN Components(Tail(p), << >>, IF cur = << >> THEN acc ELSE Append(acc, cur))
         ELSE Components(Tail(p), Append(cur, p[1]), acc)

\* the directory above a canonical path
RECURSIVE Parent(_)
Parent(p) ==
    IF Len(p) <= 1 THEN Root
    ELSE IF p[Len(p)] = SLASH THEN (IF Len(p) = 2 THEN Root ELSE SubSeq(p, 1, Len(p) - 1))
    ELSE Parent(SubSeq(p, 1, Len(p) - 1) \o (IF Len(p) = 2 THEN <<SLASH>> ELSE << >>))

\* no directory
Missing == <<"missing">>

\* the file system following the components of an absolute path from the
\* directory at: "." stays, ".." goes up, a name enters the directory of
\* that name if there is one
RECURSIVE WalkPath(_, _)
WalkPath(comps, at) ==
    IF comps = << >> THEN at
    ELSE IF comps[1] = <<DOT>> THEN WalkPath(Tail(comps), at)
    ELSE IF comps[1] = <<DOT, DOT>> THEN WalkPath(Tail(comps), Parent(at))
    ELSE IF PathJoin(at, comps[1]) \in Dirs
         THEN WalkPath(Tail(comps), PathJoin(at, comps[1]))
         ELSE Missing

\* std::fs::canonicalize of an absolute path, Missing when nothing is there
Canonicalize(p) == WalkPath(Components(p, << >>, << >>), Root)

\* Path::is_dir
IsDir(p) == IsAbsolute(p) /\ Canonicalize(p) # Missing

\* str::trim_start_matches(c) and str::trim_matches(c)
RECURSIVE TrimStartMatches(_, _)
TrimStartMatches(s, c) ==
    IF s # << >> /\ s[1] = c THEN TrimStartMatches(Tail(s), c) ELSE s

RECURSIVE TrimEndMatches(_, _)
TrimEndMatches(s, c) ==
    IF s # << >> /\ s[Len(s)] = c THEN TrimEndMatches(SubSeq(s, 1, Len(s) - 1), c) ELSE s

TrimMatches(s, c) == TrimEndMatches(TrimStartMatches(s, c), c)

\* char::escape_debug inside a string: the double quote, the backslash and
\* the tab are written behind a backslash
EscapeDebug(c) ==
    CASE c = DQ -> <<BS, DQ>>
      [] c = BS -> <<BS, BS>>
      [] c = TAB -> <<BS, "t">>
      [] OTHER -> <<c>>

RECURSIVE EscapeAll(_)
EscapeAll(s) == IF s = << >> THEN << >> ELSE EscapeDebug(s[1]) \o EscapeAll(Tail(s))

\* format!("{:?}", path): the escaped characters between double quotes
DebugFormat(p) == <<DQ>> \o EscapeAll(p) \o <<DQ>>


\* the history files
HistoryFiles == {<<"f">>, <<"g">>}
NoFile == [exists |-> FALSE, bytes |-> << >>]
NoFiles == [f \in HistoryFiles |-> NoFile]

\* no builtin call yet
NoCall == [com |-> << >>, rest |-> << >>]

\* -------------------------------------------------------------------- state
VARIABLES
    args_raw,   \* the line handed to process_args
    pc,         \* the call process_args is about to make
    raw,        \* split_args' tokens
    tokens,     \* post_process_args' tokens
    stages,     \* split_pipeline's token lists
    cmds,       \* the pipeline process_args returns
    err,        \* the error process_args returns, or NoError
    xpc,        \* the step the pipeline executor is about to take
    idx,        \* the stage the executor is at, counted from 1
    carry,      \* what the stage before yields downstream
    procs,      \* per stage, the process spawned for it
    ran,        \* the stages whose builtin body or process has been started
    terminal,   \* the writes to the real terminal stream, in order
    outcome,    \* what the pipeline run returns to the REPL
    rpc,        \* where the REPL loop is
    last_exit_code,  \* State::last_exit_code
    shutdown_code,   \* the REPL's shutdown_code
    path,       \* State::path, the shell's current directory
    history,    \* History::history, the lines entered
    appended,   \* History::appended
    files,      \* the history files on disk: whether each exists, its content
    bcall,      \* the builtin call that was made: the builtin and its arguments
    bout,       \* what the builtin wrote to its stdout target
    bres,       \* the value the builtin's run returned, or Panic
    floods      \* the streams on which a stage's process writes more than a
                \* pipe holds: pairs of a stage and a stream

parseVars == <<args_raw, pc, raw, tokens, stages, cmds, err>>
execVars == <<xpc, idx, carry, procs, ran, terminal, outcome>>
replVars == <<rpc, last_exit_code, shutdown_code>>
shellVars == <<path, history, appended, files>>
callVars == <<bcall, bout, bres>>
vars == <<args_raw, pc, raw, tokens, stages, cmds, err,
          xpc, idx, carry, procs, ran, terminal, outcome,
          rpc, last_exit_code, shutdown_code,
          path, history, appended, files, bcall, bout, bres, floods>>

\* the two output streams of a process
Streams == {"stdout", "stderr"}

\* no process writes more than a pipe holds
NoFlood == {}

\* the executor before a pipeline run
ExecIdle ==
    /\ xpc = "idle"
    /\ idx = 0
    /\ carry = Nothing
    /\ procs = << >>
    /\ ran = {}
    /\ terminal = << >>
    /\ outcome = NoOutcome
    /\ floods = NoFlood

\* History::new
HistoryNew == history = << >> /\ appended = 0

\* before any builtin call
NoCallYet == bcall = NoCall /\ bout = << >> /\ bres = NoOutcome

\* the REPL inside its first run_commands call: last_exit_code: 0 and
\* let mut shutdown_code = None
ReplStart ==
    /\ rpc = "run_commands"
    /\ last_exit_code = 0
    /\ shutdown_code = NoShutdownCode
    /\ path = Root
    /\ HistoryNew
    /\ files = NoFiles
    /\ NoCallYet

Lines == {s \in SeqsUpTo(Alphabet, MaxLen) : IsTrimmed(s)}

Init ==
    /\ args_raw \in Lines
    /\ pc = "process_args_inner"
    /\ raw = << >>
    /\ tokens = << >>
    /\ stages = << >>
    /\ cmds = << >>
    /\ err = NoError
    /\ ExecIdle
    /\ ReplStart

\* process_args_inner, up to the call of split_args
StartsWithPipe ==
    /\ pc = "process_args_inner"
    /\ IF args_raw # << >> /\ args_raw[1] = PIPE
       THEN pc' = "done" /\ err' = "PipeAtBeginning"
       ELSE pc' = "split_args" /\ err' = err
    /\ UNCHANGED <<args_raw, raw, tokens, stages, cmds>>
    /\ UNCHANGED execVars
    /\ UNCHANGED <<replVars, shellVars, callVars, floods>>

\* let res = split_args(args)?;
SplitArgs ==
    /\ pc = "split_args"
    /\ LET r == split_args(args_raw) IN
       IF r.err # NoError
       THEN pc' = "done" /\ err' = r.err /\ raw' = raw
       ELSE pc' = "post_process_args" /\ err' = err /\ raw' = r.res
    /\ UNCHANGED <<args_raw, tokens, stages, cmds>>
    /\ UNCHANGED execVars
    /\ UNCHANGED <<replVars, shellVars, callVars, floods>>

\* let res = post_process_args(res)?;
PostProcessArgs ==
    /\ pc = "post_process_args"
    /\ LET r == post_process_args(raw) IN
       IF r.err # NoError
       THEN pc' = "done" /\ err' = r.err /\ tokens' = tokens
       ELSE pc' = "split_pipeline" /\ err' = err /\ tokens' = r.res
    /\ UNCHANGED <<args_raw, raw, stages, cmds>>
    /\ UNCHANGED execVars
    /\ UNCHANGED <<replVars, shellVars, callVars, floods>>

\* let res = split_pipeline(res)?;
SplitPipeline ==
    /\ pc = "split_pipeline"
    /\ stages' = split_pipeline(tokens)
    /\ pc' = "Command::new"
    /\ UNCHANGED <<args_raw, raw, tokens, cmds, err>>
    /\ UNCHANGED execVars
    /\ UNCHANGED <<replVars, shellVars, callVars, floods>>

\* res.into_iter().map(Command::new).collect()
BuildCommands ==
    /\ pc = "Command::new"
    /\ LET cs == [k \in 1..Len(stages) |-> CommandNew(stages[k])]
           e == FirstError(cs, 1)
       IN IF e # NoError
          THEN err' = e /\ cmds' = cmds
          ELSE err' = err /\ cmds' = cs
    /\ pc' = "done"
    /\ UNCHANGED <<args_raw, raw, tokens, stages>>
    /\ UNCHANGED execVars
    /\ UNCHANGED <<replVars, shellVars, callVars, floods>>

Next ==
    \/ StartsWithPipe
    \/ SplitArgs
    \/ PostProcessArgs
    \/ SplitPipeline
    \/ BuildCommands

Spec == Init /\ [][Next]_vars

\* ------------------------------------------- lines with redirect operators
\* the words of the lines: a plain word, the six operators that
\* find_redirect matches, tokens that are near them, and the pipe
RedirectWords ==
    { <<"a">>, <<">">>, <<"1", ">">>, <<"2", ">">>, <<">", ">">>,
      <<"1", ">", ">">>, <<"2", ">", ">">>,
      <<"2">>, <<"3", ">">>, <<">", ">", ">">>, PipeToken }

RedirectLines == {JoinWords(ws) : ws \in SeqsUpTo(RedirectWords, MaxWords)}

InitRedirect ==
    /\ args_raw \in RedirectLines
    /\ pc = "process_args_inner"
    /\ raw = << >>
    /\ tokens = << >>
    /\ stages = << >>
    /\ cmds = << >>
    /\ err = NoError
    /\ ExecIdle
    /\ ReplStart

\* process_args on the lines with redirect operators
SpecRedirect == InitRedirect /\ [][Next]_vars

\* ------------------------------------------------------ the pipeline executor
\* the stages of the lines that are run: a builtin that writes, the exit
\* builtin, a program found in PATH and a name that is neither, with and
\* without a redirect
StageWordLists ==
    { <<Echo>>, <<Echo, <<"a">>>>, <<Echo, <<">">>, <<"f">>>>,
      <<Echo, <<"2", ">">>, <<"f">>>>, <<Echo, <<"2", ">", ">">>, <<"f">>>>,
      <<Exit>>, <<Exit, <<"1">>>>, <<Exit, <<"a">>>>,
      <<Cat>>, <<Cat, <<">">>, <<"f">>>>, <<Cat, <<"2", ">">>, <<"f">>>>,
      <<Nope>> }

\* the words of a pipeline: the words of its stages with a pipe between them
RECURSIVE PipelineWords(_)
PipelineWords(ss) ==
    IF Len(ss) = 1 THEN ss[1]
    ELSE ss[1] \o <<PipeToken>> \o PipelineWords(Tail(ss))

ExecLines ==
    {JoinWords(PipelineWords(ss)) :
        ss \in UNION {[1..n -> StageWordLists] : n \in 1..MaxStages}}

InitExec ==
    /\ args_raw \in ExecLines
    /\ pc = "process_args_inner"
    /\ raw = << >>
    /\ tokens = << >>
    /\ stages = << >>
    /\ cmds = << >>
    /\ err = NoError
    /\ ExecIdle
    /\ ReplStart

\* the executor moves on: to the next stage, or to the finalization after
\* the last one
Advance ==
    IF idx = Len(cmds)
    THEN xpc' = "finalize" /\ idx' = idx
    ELSE xpc' = "resolve" /\ idx' = idx + 1

\* process_args has returned: a parse error is returned to the REPL, a
\* pipeline is run from its first stage with the carry "nothing"
StartPipeline ==
    /\ pc = "done" /\ xpc = "idle"
    /\ IF err # NoError
       THEN /\ xpc' = "returned"
            /\ outcome' = [kind |-> "ParseError", code |-> 0]
            /\ UNCHANGED <<idx, procs>>
       ELSE /\ xpc' = "resolve"
            /\ idx' = 1
            /\ procs' = [k \in 1..Len(cmds) |-> NoProcess]
            /\ outcome' = outcome
    /\ UNCHANGED <<carry, ran, terminal>>
    /\ UNCHANGED parseVars
    /\ UNCHANGED <<replVars, shellVars, callVars, floods>>

\* step 2: the command name resolves to a builtin, to an executable, or to
\* neither, which ends the run with CommandNotFound
Resolve ==
    /\ xpc = "resolve"
    /\ LET com == cmds[idx].command IN
       IF BuiltinsTryFrom(com) = "Ok"
       THEN /\ xpc' = IF carry.kind = "Process" THEN "wait" ELSE "builtin"
            /\ outcome' = outcome
       ELSE IF is_program(com) = "Ok"
            THEN xpc' = "spawn" /\ outcome' = outcome
            ELSE /\ xpc' = "returned"
                 /\ outcome' = [kind |-> "CommandNotFound", code |-> 0]
    /\ procs' = IF carry.kind = "Process" /\ xpc' = "returned"
                THEN [procs EXCEPT ![carry.stage].rd = {}]
                ELSE procs
    /\ UNCHANGED <<idx, carry, ran, terminal>>
    /\ UNCHANGED parseVars
    /\ UNCHANGED <<replVars, shellVars, callVars, floods>>

\* step 3, the wait with the exit code of the process not looked at
WaitBeforeBuiltin_CodeIgnored ==
    /\ xpc = "wait"
    /\ procs[carry.stage].state = "exited"
    /\ procs' = [procs EXCEPT ![carry.stage].state = "waited",
                              ![carry.stage].rd = {}]
    /\ xpc' = "builtin" /\ outcome' = outcome
    /\ carry' = Nothing
    /\ UNCHANGED <<idx, ran, terminal>>
    /\ UNCHANGED parseVars
    /\ UNCHANGED <<replVars, shellVars, callVars, floods>>

\* step 3, the wait with the output of the process copied to the terminal
WaitBeforeBuiltin_OutputForwarded ==
    /\ xpc = "wait"
    /\ procs[carry.stage].state = "exited"
    /\ procs' = [procs EXCEPT ![carry.stage].state = "waited",
                              ![carry.stage].rd = {}]
    /\ IF procs[carry.stage].code # 0
       THEN /\ xpc' = "returned"
            /\ outcome' = [kind |-> "ExitCode", code |-> procs[carry.stage].code]
       ELSE xpc' = "builtin" /\ outcome' = outcome
    /\ carry' = Nothing
    /\ terminal' = Append(terminal, [by |-> "process", stage |-> carry.stage])
    /\ UNCHANGED <<idx, ran>>
    /\ UNCHANGED parseVars
    /\ UNCHANGED <<replVars, shellVars, callVars, floods>>

\* step 3, before a builtin: the executor waits for the running process of
\* the carry; a nonzero exit code ends the run with ExitCode(n); the output
\* of the process is discarded, the read end of its pipe dropped unread
WaitBeforeBuiltin ==
    /\ xpc = "wait"
    /\ procs[carry.stage].state = "exited"
    /\ procs' = [procs EXCEPT ![carry.stage].state = "waited",
                              ![carry.stage].rd = {}]
    /\ IF procs[carry.stage].code # 0
       THEN /\ xpc' = "returned"
            /\ outcome' = [kind |-> "ExitCode", code |-> procs[carry.stage].code]
       ELSE xpc' = "builtin" /\ outcome' = outcome
    /\ carry' = Nothing
    /\ UNCHANGED <<idx, ran, terminal>>
    /\ UNCHANGED parseVars
    /\ UNCHANGED <<replVars, shellVars, callVars, floods>>

\* step 3: the builtin body runs against the streams of new_builtin; an
\* error of the body ends the run; a file target leaves the carry "nothing",
\* the in-memory buffer becomes the carry
RunBuiltin ==
    /\ xpc = "builtin"
    /\ LET c == cmds[idx]
           io == new_builtin(c.redirect)
           r == builtin_run(c.command, c.args)
       IN /\ ran' = ran \cup {idx}
          /\ terminal' = IF io.stdout = "Terminal" /\ c.command # Exit
                         THEN Append(terminal, [by |-> "builtin", stage |-> idx])
                         ELSE terminal
          /\ IF r.kind # "Ok"
             THEN /\ xpc' = "returned" /\ outcome' = r
                  /\ UNCHANGED <<idx, carry>>
             ELSE /\ carry' = IF io.stdout = "MemFile" THEN BuiltinBuffer(idx)
                               ELSE Nothing
                  /\ outcome' = outcome
                  /\ Advance
    /\ UNCHANGED procs
    /\ UNCHANGED parseVars
    /\ UNCHANGED <<replVars, shellVars, callVars, floods>>

\* step 4 with the executor keeping a copy of the write end of the fresh pipe
SpawnExternal_KeepsWriteEnd ==
    /\ xpc = "spawn"
    /\ LET io == new_program(cmds[idx].redirect, idx = Len(cmds))
           piped == io.stdout = "Piped"
           child == [state |-> "running", code |-> 0, stdin |-> carry,
                     stdout |-> io.stdout, stderr |-> io.stderr,
                     wr |-> IF piped THEN {"child", "executor"} ELSE {},
                     rd |-> IF piped THEN {"executor"} ELSE {}]
       IN procs' = IF carry.kind = "Process" /\ procs[carry.stage].rd # {}
                   THEN [procs EXCEPT ![idx] = child,
                                      ![carry.stage].rd = {"child"}]
                   ELSE [procs EXCEPT ![idx] = child]
    /\ ran' = ran \cup {idx}
    /\ carry' = RunningProcess(idx)
    /\ Advance
    /\ UNCHANGED <<terminal, outcome>>
    /\ UNCHANGED parseVars
    /\ UNCHANGED <<replVars, shellVars, callVars, floods>>

\* step 4 with the spawn held back until the carried process has exited
SpawnExternal_AfterCarryExits ==
    /\ xpc = "spawn"
    /\ carry.kind = "Process" => procs[carry.stage].state # "running"
    /\ LET io == new_program(cmds[idx].redirect, idx = Len(cmds))
           piped == io.stdout = "Piped"
           child == [state |-> "running", code |-> 0, stdin |-> carry,
                     stdout |-> io.stdout, stderr |-> io.stderr,
                     wr |-> IF piped THEN {"child"} ELSE {},
                     rd |-> IF piped THEN {"executor"} ELSE {}]
       IN procs' = IF carry.kind = "Process" /\ procs[carry.stage].rd # {}
                   THEN [procs EXCEPT ![idx] = child,
                                      ![carry.stage].rd = {"child"}]
                   ELSE [procs EXCEPT ![idx] = child]
    /\ ran' = ran \cup {idx}
    /\ carry' = RunningProcess(idx)
    /\ Advance
    /\ UNCHANGED <<terminal, outcome>>
    /\ UNCHANGED parseVars
    /\ UNCHANGED <<replVars, shellVars, callVars, floods>>

\* step 4: the process is spawned with the streams of new_program, its stdin
\* taken from the carry, and becomes the carry; the executor does not wait.
\* Of a fresh stdout pipe the child owns the write end and the executor the
\* read end; the read end of the carried process goes to the child, the
\* executor keeps no copy of it
SpawnExternal ==
    /\ xpc = "spawn"
    /\ LET io == new_program(cmds[idx].redirect, idx = Len(cmds))
           piped == io.stdout = "Piped"
           child == [state |-> "running", code |-> 0, stdin |-> carry,
                     stdout |-> io.stdout, stderr |-> io.stderr,
                     wr |-> IF piped THEN {"child"} ELSE {},
                     rd |-> IF piped THEN {"executor"} ELSE {}]
       IN procs' = IF carry.kind = "Process" /\ procs[carry.stage].rd # {}
                   THEN [procs EXCEPT ![idx] = child,
                                      ![carry.stage].rd = {"child"}]
                   ELSE [procs EXCEPT ![idx] = child]
    /\ ran' = ran \cup {idx}
    /\ carry' = RunningProcess(idx)
    /\ Advance
    /\ UNCHANGED <<terminal, outcome>>
    /\ UNCHANGED parseVars
    /\ UNCHANGED <<replVars, shellVars, callVars, floods>>

\* the process of stage k is blocked in a write without end: it writes more
\* than a pipe holds to a pipe whose read end is open and is read by
\* nobody, which is its stdout pipe while the executor holds the read end,
\* and its stderr pipe, whose read end stays with the executor, until the
\* run returns and the executor drops the process handles
Blocked(k) ==
    /\ xpc # "returned"
    /\ \/ /\ <<k, "stdout">> \in floods
          /\ procs[k].stdout = "Piped" /\ procs[k].rd = {"executor"}
       \/ /\ <<k, "stderr">> \in floods
          /\ procs[k].stderr = "Piped"

\* a running process exits with some code once all that it writes has been
\* accepted; what it wrote to a stdout that is the real terminal is on the
\* terminal; the pipe ends it owned are closed
ProcessExit ==
    /\ \E k \in DOMAIN procs, code \in ExitCodes :
        /\ procs[k].state = "running"
        /\ ~Blocked(k)
        /\ procs' = [j \in DOMAIN procs |->
                        IF j = k
                        THEN [procs[k] EXCEPT !.state = "exited", !.code = code,
                                              !.wr = {}]
                        ELSE IF procs[k].stdin = RunningProcess(j)
                        THEN [procs[j] EXCEPT !.rd = {}]
                        ELSE procs[j]]
        /\ terminal' = IF procs[k].stdout = "Terminal"
                       THEN Append(terminal, [by |-> "process", stage |-> k])
                       ELSE terminal
    /\ UNCHANGED <<xpc, idx, carry, ran, outcome>>
    /\ UNCHANGED parseVars
    /\ UNCHANGED <<replVars, shellVars, callVars, floods>>

\* step 5 with the outcome taken from the first process that has exited with
\* a nonzero code
Finalize_AnyFailure ==
    /\ xpc = "finalize"
    /\ CASE carry.kind = "Process" ->
                /\ procs[carry.stage].state = "exited"
                /\ procs' = [procs EXCEPT ![carry.stage].state = "waited"]
                /\ LET failed == {k \in DOMAIN procs :
                                    procs[k].state = "exited" /\ procs[k].code # 0}
                   IN outcome' = IF failed = {} THEN Success
                                 ELSE [kind |-> "ExitCode",
                                       code |-> procs[CHOOSE k \in failed :
                                                  \A j \in failed : k <= j].code]
                /\ terminal' = terminal
         [] carry.kind = "Buffer" ->
                /\ terminal' = Append(terminal, [by |-> "finalize", stage |-> carry.stage])
                /\ outcome' = Success
                /\ procs' = procs
         [] OTHER ->
                /\ outcome' = Success
                /\ UNCHANGED <<procs, terminal>>
    /\ xpc' = "returned"
    /\ carry' = Nothing
    /\ UNCHANGED <<idx, ran>>
    /\ UNCHANGED parseVars
    /\ UNCHANGED <<replVars, shellVars, callVars, floods>>

\* step 5: a running process is waited for and decides the outcome; a builtin
\* buffer is written to the real terminal; "nothing" needs no action
Finalize ==
    /\ xpc = "finalize"
    /\ CASE carry.kind = "Process" ->
                /\ procs[carry.stage].state = "exited"
                /\ procs' = [procs EXCEPT ![carry.stage].state = "waited"]
                /\ outcome' = IF procs[carry.stage].code = 0 THEN Success
                              ELSE [kind |-> "ExitCode",
                                    code |-> procs[carry.stage].code]
                /\ terminal' = terminal
         [] carry.kind = "Buffer" ->
                /\ terminal' = Append(terminal, [by |-> "finalize", stage |-> carry.stage])
                /\ outcome' = Success
                /\ procs' = procs
         [] OTHER ->
                /\ outcome' = Success
                /\ UNCHANGED <<procs, terminal>>
    /\ xpc' = "returned"
    /\ carry' = Nothing
    /\ UNCHANGED <<idx, ran>>
    /\ UNCHANGED parseVars
    /\ UNCHANGED <<replVars, shellVars, callVars, floods>>

NextExec ==
    \/ Next
    \/ StartPipeline
    \/ Resolve
    \/ WaitBeforeBuiltin
    \/ RunBuiltin
    \/ SpawnExternal
    \/ ProcessExit
    \/ Finalize

\* a line is parsed and its pipeline run
SpecExec == InitExec /\ [][NextExec]_vars

\* ===================================================================
\* Reference readings of a line, written from the grammar of the line
\* and not from the tokenizer's windows
\* ===================================================================
Plain == {"a", "b"}

\* process_args_inner has returned
Returned == pc \in {"Command::new", "done"}

NoSuch(s, C) == \A k \in 1..Len(s) : s[k] \notin C

\* the arguments of a line of quoted spans and unquoted runs, for a set ws of
\* separating characters: [args, wellformed]
RECURSIVE SegmentScan(_, _, _, _)
SegmentScan(line, k, ws, acc) ==
    IF k > Len(line)
    THEN [args |-> IF acc.has THEN Append(acc.args, acc.cur) ELSE acc.args,
          wellformed |-> acc.q = NoChar]
    ELSE LET c == line[k] IN
         SegmentScan(line, k + 1, ws,
            CASE acc.q # NoChar /\ c = acc.q -> [acc EXCEPT !.q = NoChar]
              [] acc.q # NoChar /\ c # acc.q -> [acc EXCEPT !.cur = Append(@, c)]
              [] acc.q = NoChar /\ c \in {SQ, DQ} -> [acc EXCEPT !.q = c, !.has = TRUE]
              [] acc.q = NoChar /\ c \in ws ->
                    IF acc.has
                    THEN [acc EXCEPT !.args = Append(@, acc.cur), !.cur = << >>,
                                     !.has = FALSE]
                    ELSE acc
              [] OTHER -> [acc EXCEPT !.cur = Append(@, c), !.has = TRUE])

Segments(line, ws) ==
    SegmentScan(line, 1, ws, [args |-> << >>, cur |-> << >>, has |-> FALSE, q |-> NoChar])

\* a line of single-quoted spans, double-quoted spans and unquoted runs
SegmentLine(line) ==
    /\ NoSuch(line, {BS, PIPE})
    /\ Segments(line, {SP}).wellformed

\* C1: a line of quoted spans and unquoted runs (no backslash, no pipe) yields
\* one argument per group of segments not separated by unquoted whitespace,
\* its value the concatenation of the segments' contents; whitespace read
\* either as the space alone or as every whitespace character
C1_OneArgumentPerGroup ==
    (Returned /\ SegmentLine(args_raw)) =>
        /\ err \in {NoError, "MissingCommand"}
        /\ \/ stages = <<Segments(args_raw, {SP}).args>>
           \/ stages = <<Segments(args_raw, {SP, TAB}).args>>

\* the same on the lines whose only whitespace character is the space
C1_SpaceOnlyLines ==
    (Returned /\ SegmentLine(args_raw) /\ NoSuch(args_raw, {TAB})) =>
        /\ err \in {NoError, "MissingCommand"}
        /\ stages = <<Segments(args_raw, {SP}).args>>

\* the words of a run of plain characters and spaces
Words(s) == Segments(s, {SP}).args

\* plain words, one pipe, plain words: the pipe at position p
OnePipeLine(line, p) ==
    /\ p \in 2..(Len(line) - 1)
    /\ line[p] = PIPE
    /\ \A k \in 1..Len(line) : k # p => line[k] \in Plain \cup {SP}

\* C2: for plain words A.. and B.., 'A|B', 'A |B', 'A| B' and 'A | B' parse to
\* the same two stages, the words of A and the words of B in order, and the
\* pipe token is in neither stage
C2_PipeSplitsWhateverTheSpacing ==
    \A p \in 1..Len(args_raw) :
        (Returned /\ OnePipeLine(args_raw, p)) =>
            /\ err = NoError
            /\ stages = <<Words(Slice(args_raw, 0, p - 1)),
                          Words(Slice(args_raw, p, Len(args_raw)))>>

\* a pipe with a space on both sides has been split into two stages
C2_Witness ==
    \E p \in 1..Len(args_raw) :
        /\ pc = "done" /\ OnePipeLine(args_raw, p)
        /\ args_raw[p - 1] = SP /\ args_raw[p + 1] = SP
        /\ Len(stages) = 2 /\ Len(cmds) = 2

\* the content of a line that is one quoted span, without its quotes
Interior(line) == Slice(line, 1, Len(line) - 1)

\* one span quoted by q, no backslash in it
OneSpan(line, q) ==
    /\ Len(line) >= 2
    /\ line[1] = q /\ line[Len(line)] = q
    /\ NoSuch(Interior(line), {q, BS})

\* C3: a line that is one quoted span containing a pipe parses to a single
\* stage whose token holds the pipe as text
C3_QuotedPipeIsText ==
    \A q \in {SQ, DQ} :
        (Returned /\ OneSpan(args_raw, q) /\ ~NoSuch(Interior(args_raw), {PIPE})) =>
            /\ err = NoError
            /\ stages = << <<Interior(args_raw)>> >>

\* every backslash of s is followed by a character that is no backslash, and
\* follows none
LoneBackslashPairs(s) ==
    /\ ~NoSuch(s, {BS})
    /\ \A k \in 1..Len(s) :
          s[k] = BS => /\ k < Len(s) /\ s[k + 1] # BS
                       /\ (k > 1 => s[k - 1] # BS)

\* C4: in a single-quoted token every backslash followed by a character x
\* that is no backslash unescapes to backslash and x, each once, wherever the
\* pair stands
C4_BackslashInSingleQuotes ==
    ( /\ pc = "split_pipeline"
      /\ Len(args_raw) >= 2
      /\ args_raw[1] = SQ /\ args_raw[Len(args_raw)] = SQ
      /\ NoSuch(Interior(args_raw), {SQ})
      /\ LoneBackslashPairs(Interior(args_raw)) ) =>
        tokens = <<Interior(args_raw)>>

\* post_process_args has returned, or process_args_inner has failed before it
Unescaped == pc \in {"split_pipeline", "Command::new", "done"}

\* a string of characters outside `stop` and of pairs backslash-x, x no
\* backslash, read with the backslash dropped before the characters of
\* `drop`: [val, ok, pairs]
RECURSIVE PairScan(_, _, _, _, _)
PairScan(s, k, stop, drop, acc) ==
    IF k > Len(s) THEN acc
    ELSE IF s[k] = BS
         THEN IF k = Len(s) \/ s[k + 1] = BS THEN [acc EXCEPT !.ok = FALSE]
              ELSE PairScan(s, k + 2, stop, drop,
                     [acc EXCEPT !.pairs = @ + 1,
                                 !.val = IF s[k + 1] \in drop
                                         THEN Append(@, s[k + 1])
                                         ELSE @ \o <<BS, s[k + 1]>>])
         ELSE IF s[k] \in stop THEN [acc EXCEPT !.ok = FALSE]
              ELSE PairScan(s, k + 1, stop, drop, [acc EXCEPT !.val = Append(@, s[k])])

Pairs(s, stop, drop) ==
    PairScan(s, 1, stop, drop, [val |-> << >>, ok |-> TRUE, pairs |-> 0])

\* the line is one double-quoted span holding at least one backslash pair
DoubleQuotedPairs(line) ==
    /\ Len(line) >= 2
    /\ line[1] = DQ /\ line[Len(line)] = DQ
    /\ Pairs(Interior(line), {DQ}, {DQ}).ok
    /\ Pairs(Interior(line), {DQ}, {DQ}).pairs > 0

\* C5: inside double quotes a backslash followed by a double quote yields the
\* double quote alone and does not close the span; a backslash followed by
\* any other character x that is no backslash yields the backslash and x
C5_BackslashInDoubleQuotes ==
    (Unescaped /\ DoubleQuotedPairs(args_raw)) =>
        /\ err = NoError
        /\ tokens = <<Pairs(Interior(args_raw), {DQ}, {DQ}).val>>

\* an escaped double quote inside a double-quoted span has been unescaped
C5_Witness ==
    /\ pc = "done" /\ DoubleQuotedPairs(args_raw)
    /\ \E k \in 2..(Len(args_raw) - 2) : args_raw[k] = BS /\ args_raw[k + 1] = DQ
    /\ Len(tokens) = 1 /\ ~NoSuch(tokens[1], {DQ})

\* the words of a line of plain characters, spaces and backslash pairs (x any
\* character): the backslash of every pair is dropped and x kept in its word
RECURSIVE EscapedWords(_, _, _)
EscapedWords(s, k, acc) ==
    IF k > Len(s)
    THEN [acc EXCEPT !.args = IF acc.has THEN Append(@, acc.cur) ELSE @]
    ELSE IF s[k] = BS
         THEN IF k = Len(s) THEN [acc EXCEPT !.ok = FALSE]
              ELSE EscapedWords(s, k + 2,
                     [acc EXCEPT !.cur = Append(@, s[k + 1]), !.has = TRUE,
                                 !.pairs = @ + 1])
         ELSE IF s[k] = SP
              THEN EscapedWords(s, k + 1,
                     IF acc.has
                     THEN [acc EXCEPT !.args = Append(@, acc.cur), !.cur = << >>,
                                      !.has = FALSE]
                     ELSE acc)
              ELSE IF s[k] \in Plain
                   THEN EscapedWords(s, k + 1,
                          [acc EXCEPT !.cur = Append(@, s[k]), !.has = TRUE])
                   ELSE [acc EXCEPT !.ok = FALSE]

Escaped(s) ==
    EscapedWords(s, 1, [args |-> << >>, cur |-> << >>, has |-> FALSE, ok |-> TRUE,
                        pairs |-> 0])

\* C6: outside quotes a backslash followed by a character x is removed and x
\* stays a literal part of the current argument: an escaped space does not
\* split it, an escaped quote opens no span, an escaped first character
\* begins the first argument
C6_BackslashOutsideQuotes ==
    (Returned /\ Escaped(args_raw).ok /\ Escaped(args_raw).pairs > 0) =>
        /\ err = NoError
        /\ stages = <<Escaped(args_raw).args>>

\* the same on the lines in which no escaped character is a pipe
C6_NoEscapedPipe ==
    (Returned /\ Escaped(args_raw).ok /\ Escaped(args_raw).pairs > 0
              /\ NoSuch(args_raw, {PIPE})) =>
        /\ err = NoError
        /\ stages = <<Escaped(args_raw).args>>

\* a string in which backslashes stand only in consecutive pairs, each pair
\* read as one backslash: [val, ok, pairs]
RECURSIVE CollapseScan(_, _, _, _)
CollapseScan(s, k, stop, acc) ==
    IF k > Len(s) THEN acc
    ELSE IF s[k] = BS
         THEN IF k < Len(s) /\ s[k + 1] = BS
              THEN CollapseScan(s, k + 2, stop,
                     [acc EXCEPT !.val = Append(@, BS), !.pairs = @ + 1])
              ELSE [acc EXCEPT !.ok = FALSE]
         ELSE IF s[k] \in stop THEN [acc EXCEPT !.ok = FALSE]
              ELSE CollapseScan(s, k + 1, stop, [acc EXCEPT !.val = Append(@, s[k])])

Collapse(s, stop) ==
    CollapseScan(s, 1, stop, [val |-> << >>, ok |-> TRUE, pairs |-> 0])

\* the body of a one-token line in the quoting context q (NoChar: unquoted),
\* and the characters that may not stand in it
BodyOf(line, q) == IF q = NoChar THEN line ELSE Interior(line)
StopOf(q) == IF q = NoChar THEN {SQ, DQ, SP, TAB, PIPE} ELSE {SQ, DQ}

InContext(line, q) ==
    /\ q # NoChar => /\ Len(line) >= 2
                     /\ line[1] = q /\ line[Len(line)] = q
    /\ Collapse(BodyOf(line, q), StopOf(q)).ok
    /\ Collapse(BodyOf(line, q), StopOf(q)).pairs > 0

\* C7: two consecutive backslashes collapse to one backslash in every quoting
\* context of the unescaper (unquoted, single quotes, double quotes), at any
\* position of the token, its end included
C7_DoubleBackslashCollapses ==
    \A q \in {NoChar, SQ, DQ} :
        (Unescaped /\ InContext(args_raw, q)) =>
            /\ err = NoError
            /\ tokens = <<Collapse(BodyOf(args_raw, q), StopOf(q)).val>>

\* a pair of backslashes right before the closing quote has collapsed
C7_Witness ==
    /\ pc = "done" /\ InContext(args_raw, SQ)
    /\ Len(args_raw) >= 5
    /\ args_raw[Len(args_raw) - 1] = BS /\ args_raw[Len(args_raw) - 2] = BS
    /\ Len(tokens) = 1 /\ tokens[1][Len(tokens[1])] = BS

\* a line that is one argument made of quoted spans and unquoted runs, a
\* quote character of the other kind standing inside one of its spans
MixedQuoting(line) ==
    /\ SegmentLine(line)
    /\ Segments(line, {SP, TAB}).args = Segments(line, {SP}).args
    /\ Len(Segments(line, {SP}).args) = 1
    /\ ~NoSuch(Segments(line, {SP}).args[1], {SQ, DQ})

\* C8: every double quote inside a single-quoted span and every single quote
\* inside a double-quoted span stands unchanged in the argument value, and
\* neither opens nor closes a span
C8_InnerQuotesAreLiteral ==
    (Unescaped /\ MixedQuoting(args_raw)) =>
        /\ err = NoError
        /\ tokens = Segments(args_raw, {SP}).args

\* a double quote inside a single-quoted span has been kept
C8_Witness ==
    /\ pc = "done" /\ MixedQuoting(args_raw)
    /\ args_raw[1] = SQ
    /\ Len(tokens) = 1 /\ ~NoSuch(tokens[1], {DQ})

\* the quoting state at the end of the line and the positions of its pipes
\* that are neither quoted nor escaped; a backslash protects the character
\* after it in every state
RECURSIVE QuoteScan(_, _, _)
QuoteScan(line, k, acc) ==
    IF k > Len(line) THEN acc
    ELSE IF line[k] = BS THEN QuoteScan(line, k + 2, acc)
    ELSE IF acc.q # NoChar
         THEN QuoteScan(line, k + 1, IF line[k] = acc.q THEN [acc EXCEPT !.q = NoChar] ELSE acc)
         ELSE QuoteScan(line, k + 1,
                CASE line[k] \in {SQ, DQ} -> [acc EXCEPT !.q = line[k]]
                  [] line[k] = PIPE -> [acc EXCEPT !.pipes = @ \cup {k}]
                  [] OTHER -> acc)

Quoting(line) == QuoteScan(line, 1, [q |-> NoChar, pipes |-> {}])

FirstIsPipe(line) == line # << >> /\ line[1] = PIPE
DanglingPipeAtEnd(line) == line # << >> /\ Len(line) \in Quoting(line).pipes
PipeAfterPipe(line) == \E k \in Quoting(line).pipes : k + 1 \in Quoting(line).pipes

C10_AsStated ==
    pc = "done" =>
        /\ Quoting(args_raw).q = SQ => err = "MissingEndSingleQuote"
        /\ Quoting(args_raw).q = DQ => err = "MissingEndDoubleQuote"
        /\ Quoting(args_raw).q = NoChar =>
                err \notin {"MissingEndSingleQuote", "MissingEndDoubleQuote"}

\* C10, amended: a span open at the end of the line fails with the error of
\* its quote unless parsing has failed before the end of the line on a pipe
\* (PipeAtBeginning, PipeFollowingPipe); a line whose spans are all closed
\* gives neither error
C10_UnterminatedQuoteErrors ==
    pc = "done" =>
        /\ (Quoting(args_raw).q = SQ /\ err \notin {"PipeAtBeginning", "PipeFollwingPipe"})
                => err = "MissingEndSingleQuote"
        /\ (Quoting(args_raw).q = DQ /\ err \notin {"PipeAtBeginning", "PipeFollwingPipe"})
                => err = "MissingEndDoubleQuote"
        /\ Quoting(args_raw).q = NoChar =>
                err \notin {"MissingEndSingleQuote", "MissingEndDoubleQuote"}

\* a line has ended inside a single-quoted span opened after a closed
\* double-quoted one, and failed with MissingEndSingleQuote
C10_Witness ==
    /\ pc = "done" /\ err = "MissingEndSingleQuote"
    /\ Quoting(args_raw).q = SQ
    /\ args_raw[1] = DQ

\* split_args has returned its tokens
Tokenized == pc = "post_process_args"

\* the number of tokens of ts that are in the set S
RECURSIVE CountIn(_, _)
CountIn(ts, S) ==
    IF ts = << >> THEN 0
    ELSE (IF Head(ts) \in S THEN 1 ELSE 0) + CountIn(Tail(ts), S)

\* C11: every raw token the tokenizer emits is the one-character pipe token
\* or a word without an unquoted, unescaped pipe, and every unquoted,
\* unescaped pipe of the line is emitted as a token of its own, whatever
\* character follows it
C11_PipeIsItsOwnToken ==
    Tokenized =>
        /\ \A k \in 1..Len(raw) :
                raw[k] = PipeToken \/ Quoting(raw[k]).pipes = {}
        /\ CountIn(raw, {PipeToken}) = Cardinality(Quoting(args_raw).pipes)

\* the same on the lines in which no backslash directly follows an unquoted,
\* unescaped pipe
C11_NoBackslashAfterPipe ==
    (Tokenized /\ \A k \in Quoting(args_raw).pipes :
                        k < Len(args_raw) => args_raw[k + 1] # BS) =>
        /\ \A k \in 1..Len(raw) :
                raw[k] = PipeToken \/ Quoting(raw[k]).pipes = {}
        /\ CountIn(raw, {PipeToken}) = Cardinality(Quoting(args_raw).pipes)

\* process_args has returned a pipeline
Succeeded == pc = "done" /\ err = NoError

\* C12: in every stage of a successfully parsed pipeline the command string
\* is not empty
C12_CommandIsNonEmpty ==
    Succeeded => \A k \in 1..Len(cmds) : cmds[k].command # << >>

\* split_pipeline and Command::new have both run
Built == pc = "done" /\ stages # << >>

\* C13: when process_args succeeds the pipeline has at least one stage, one
\* more than there are pipe separators among the unescaped tokens, each built
\* from a token list that is not empty; when a stage's token list is empty
\* (the empty line included) process_args fails with MissingCommand and
\* returns no stage
C13_StagesAndSeparators ==
    /\ Succeeded =>
            /\ Len(cmds) >= 1
            /\ Len(cmds) = CountIn(tokens, {PipeToken}) + 1
            /\ Len(stages) = Len(cmds)
            /\ \A k \in 1..Len(stages) : stages[k] # << >>
    /\ (Built /\ \E k \in 1..Len(stages) : stages[k] = << >>) =>
            (err = "MissingCommand" /\ cmds = << >>)
    /\ (pc = "done" /\ args_raw = << >>) =>
            (err = "MissingCommand" /\ cmds = << >>)

\* a pipeline of two stages has been returned for a line with one separator
C13_Witness ==
    /\ Succeeded /\ Len(cmds) = 2 /\ CountIn(tokens, {PipeToken}) = 1
    /\ Len(stages[1]) = 2
    /\ \E p \in 1..Len(args_raw) : OnePipeLine(args_raw, p)

\* a line of plain words separated by spaces, one word at least
PlainWords(line) ==
    /\ line # << >>
    /\ \A k \in 1..Len(line) : line[k] \in Plain \cup {SP}

\* C14: a line of plain words separated by one or more spaces parses to a
\* single stage whose tokens are those words, in order and unchanged, none
\* empty; and unescaping a token without quote or backslash returns it
\* unchanged
C14_PlainWordsUnchanged ==
    /\ (Returned /\ PlainWords(args_raw)) =>
            /\ err = NoError
            /\ raw = Words(args_raw)
            /\ tokens = raw
            /\ stages = <<Words(args_raw)>>
            /\ \A k \in 1..Len(tokens) : tokens[k] # << >>
    /\ Unescaped =>
            \A k \in 1..Len(tokens) :
                NoSuch(raw[k], {SQ, DQ, BS}) => tokens[k] = raw[k]

\* two words separated by two spaces have gone through the unescaper
C14_Witness ==
    /\ pc = "done" /\ PlainWords(args_raw)
    /\ \E k \in 1..(Len(args_raw) - 1) : args_raw[k] = SP /\ args_raw[k + 1] = SP
    /\ Len(tokens) = 2 /\ cmds # << >>

\* the redirect operator grammar: the six operator tokens and their meaning
Operators ==
    { <<">">>, <<"1", ">">>, <<"2", ">">>, <<">", ">">>, <<"1", ">", ">">>,
      <<"2", ">", ">">> }

TargetOf(op) == IF op[1] = "2" THEN "Stderr" ELSE "Stdout"
AppendOf(op) == Len(op) >= 2 /\ op[Len(op)] = ">" /\ op[Len(op) - 1] = ">"

\* the positions of the arguments that are an operator followed by a token
OperatorPairs(rest) == {i \in 1..(Len(rest) - 1) : rest[i] \in Operators}

Leftmost(P) == CHOOSE i \in P : \A j \in P : i <= j

\* C15: redirect resolution takes the leftmost pair (operator, following
\* token) among a stage's arguments: args are the arguments before the
\* operator, the path is the token right after it, what follows the path is
\* discarded; without such a pair the stage has no redirect and keeps all its
\* arguments; the tokens [a, a, >, a] give args [a] and a stdout, non-append
\* redirect to a
C15_LeftmostPairWins ==
    Succeeded =>
        \A k \in 1..Len(cmds) :
            LET rest == Tail(stages[k])
                P == OperatorPairs(rest)
            IN /\ cmds[k].command = Head(stages[k])
               /\ P = {} => /\ cmds[k].redirect = NoRedirect
                            /\ cmds[k].args = rest
               /\ P # {} => /\ cmds[k].redirect.kind = "Some"
                            /\ cmds[k].args = SubSeq(rest, 1, Leftmost(P) - 1)
                            /\ cmds[k].redirect.file_path = rest[Leftmost(P) + 1]
               /\ stages[k] = <<<<"a">>, <<"a">>, <<">">>, <<"a">>>> =>
                        cmds[k] = [command |-> <<"a">>, args |-> <<<<"a">>>>,
                                   redirect |-> [kind |-> "Some", to |-> "Stdout",
                                                 append |-> FALSE,
                                                 file_path |-> <<"a">>],
                                   err |-> NoError]

\* a stage with two candidate pairs, the operator of the second one being the
\* path of the first
C15_Witness ==
    /\ Succeeded /\ Len(cmds) = 1 /\ cmds[1].command = <<"a">>
    /\ Cardinality(OperatorPairs(Tail(stages[1]))) = 2
    /\ cmds[1].redirect.kind = "Some"
    /\ cmds[1].redirect.file_path \in Operators
    /\ cmds[1].args = << >>

\* C16: the operator grammar is the six tokens >, 1>, 2>, >>, 1>>, 2>>, with
\* > and 1> stdout truncate, 2> stderr truncate, >> and 1>> stdout append,
\* 2>> stderr append; no other token is taken for an operator, and a stage
\* carries at most one redirect
C16_OperatorGrammar ==
    Succeeded =>
        \A k \in 1..Len(cmds) :
            LET rest == Tail(stages[k])
                n == Len(cmds[k].args)
            IN /\ cmds[k].redirect.kind \in {"None", "Some"}
               /\ cmds[k].redirect.kind = "Some" =>
                    /\ n + 2 <= Len(rest)
                    /\ rest[n + 1] \in Operators
                    /\ cmds[k].redirect =
                            [kind |-> "Some", to |-> TargetOf(rest[n + 1]),
                             append |-> AppendOf(rest[n + 1]),
                             file_path |-> rest[n + 2]]
               /\ (\A i \in 1..Len(rest) : rest[i] \notin Operators) =>
                        cmds[k].redirect = NoRedirect
               /\ \A op \in Operators :
                    stages[k] = <<<<"a">>, op, <<"a">>>> =>
                        cmds[k].redirect =
                            [kind |-> "Some",
                             to |-> IF op \in {<<"2", ">">>, <<"2", ">", ">">>}
                                    THEN "Stderr" ELSE "Stdout",
                             append |-> op \in {<<">", ">">>, <<"1", ">", ">">>,
                                                <<"2", ">", ">">>},
                             file_path |-> <<"a">>]

\* a stage redirected by 2>> next to a token that is no operator
C16_Witness ==
    /\ Succeeded /\ Len(cmds) = 1
    /\ stages[1] = <<<<"a">>, <<">", ">", ">">>, <<"2", ">", ">">>, <<"a">>>>
    /\ cmds[1].redirect.kind = "Some"
    /\ cmds[1].redirect.to = "Stderr" /\ cmds[1].redirect.append

ReplStageWordLists ==
    { <<Echo>>, <<Exit>>, <<Exit, <<"1">>>>, <<Exit, <<"2", "5", "6">>>>,
      <<Exit, <<"-", "1">>>>, <<Exit, <<"a">>>>, <<Cat>>, <<Nope>> }

\* lines on which process_args fails, one for each of its errors; the last
\* two have a well-formed first stage
ParseErrorLines ==
    { JoinWords(<<PipeToken, Echo>>),
      JoinWords(<<Echo, PipeToken>>),
      JoinWords(<<Echo, <<SQ, "a">>>>),
      JoinWords(<<Echo, <<DQ, "a">>>>),
      JoinWords(<<Echo, PipeToken, PipeToken, Cat>>),
      JoinWords(<<Echo, PipeToken, <<BS, PIPE>>>>) }

ReplLines ==
    {JoinWords(PipelineWords(ss)) :
        ss \in UNION {[1..n -> ReplStageWordLists] : n \in 1..MaxReplStages}}
    \cup ParseErrorLines

InitRepl ==
    /\ args_raw \in ReplLines
    /\ pc = "process_args_inner"
    /\ raw = << >>
    /\ tokens = << >>
    /\ stages = << >>
    /\ cmds = << >>
    /\ err = NoError
    /\ ExecIdle
    /\ ReplStart

\* what the REPL writes to the terminal about the line
Report == [by |-> "repl", stage |-> 0]

\* the match with the arm of Shutdown(v) going on with the loop
ReplMatch_ShutdownIgnored ==
    /\ rpc = "run_commands" /\ xpc = "returned"
    /\ outcome.kind # "ParseError"
    /\ CASE outcome.kind = "Ok" ->
                /\ last_exit_code' = 0
                /\ rpc' = "read_line"
                /\ UNCHANGED <<terminal, shutdown_code>>
         [] outcome.kind = "ExitCode" ->
                /\ last_exit_code' = outcome.code
                /\ rpc' = "read_line"
                /\ UNCHANGED <<terminal, shutdown_code>>
         [] OTHER ->
                /\ terminal' = Append(terminal, Report)
                /\ rpc' = "read_line"
                /\ UNCHANGED <<last_exit_code, shutdown_code>>
    /\ UNCHANGED <<xpc, idx, carry, procs, ran, outcome>>
    /\ UNCHANGED <<parseVars, shellVars, callVars, floods>>

\* the match with the arm of Shutdown(v) leaving the loop without the code
ReplMatch_ShutdownCodeDropped ==
    /\ rpc = "run_commands" /\ xpc = "returned"
    /\ outcome.kind # "ParseError"
    /\ CASE outcome.kind = "Ok" ->
                /\ last_exit_code' = 0
                /\ rpc' = "read_line"
                /\ UNCHANGED <<terminal, shutdown_code>>
         [] outcome.kind = "ExitCode" ->
                /\ last_exit_code' = outcome.code
                /\ rpc' = "read_line"
                /\ UNCHANGED <<terminal, shutdown_code>>
         [] outcome.kind = "Shutdown" ->
                /\ rpc' = "stopped"
                /\ UNCHANGED <<terminal, last_exit_code, shutdown_code>>
         [] OTHER ->
                /\ terminal' = Append(terminal, Report)
                /\ rpc' = "read_line"
                /\ UNCHANGED <<last_exit_code, shutdown_code>>
    /\ UNCHANGED <<xpc, idx, carry, procs, ran, outcome>>
    /\ UNCHANGED <<parseVars, shellVars, callVars, floods>>

\* the match with the arm of ExitCode(v) leaving last_exit_code alone
ReplMatch_ExitCodeNotRecorded ==
    /\ rpc = "run_commands" /\ xpc = "returned"
    /\ outcome.kind # "ParseError"
    /\ CASE outcome.kind = "Ok" ->
                /\ last_exit_code' = 0
                /\ rpc' = "read_line"
                /\ UNCHANGED <<terminal, shutdown_code>>
         [] outcome.kind = "ExitCode" ->
                /\ rpc' = "read_line"
                /\ UNCHANGED <<terminal, last_exit_code, shutdown_code>>
         [] outcome.kind = "Shutdown" ->
                /\ shutdown_code' = SomeCode(outcome.code)
                /\ rpc' = "stopped"
                /\ UNCHANGED <<terminal, last_exit_code>>
         [] OTHER ->
                /\ terminal' = Append(terminal, Report)
                /\ rpc' = "read_line"
                /\ UNCHANGED <<last_exit_code, shutdown_code>>
    /\ UNCHANGED <<xpc, idx, carry, procs, ran, outcome>>
    /\ UNCHANGED <<parseVars, shellVars, callVars, floods>>

\* match state.run_commands(input), every arm but the one of a parse error:
\* Ok and ExitCode(v) set last_exit_code, Shutdown(v) sets shutdown_code and
\* leaves the loop, the other errors are written to the terminal
ReplMatch ==
    /\ rpc = "run_commands" /\ xpc = "returned"
    /\ outcome.kind # "ParseError"
    /\ CASE outcome.kind = "Ok" ->
                /\ last_exit_code' = 0
                /\ rpc' = "read_line"
                /\ UNCHANGED <<terminal, shutdown_code>>
         [] outcome.kind = "ExitCode" ->
                /\ last_exit_code' = outcome.code
                /\ rpc' = "read_line"
                /\ UNCHANGED <<terminal, shutdown_code>>
         [] outcome.kind = "Shutdown" ->
                /\ shutdown_code' = SomeCode(outcome.code)
                /\ rpc' = "stopped"
                /\ UNCHANGED <<terminal, last_exit_code>>
         [] OTHER ->
                /\ terminal' = Append(terminal, Report)
                /\ rpc' = "read_line"
                /\ UNCHANGED <<last_exit_code, shutdown_code>>
    /\ UNCHANGED <<xpc, idx, carry, procs, ran, outcome>>
    /\ UNCHANGED <<parseVars, shellVars, callVars, floods>>

\* the arm of a parse error leaving the loop
ReplParseError_LeavesTheLoop ==
    /\ rpc = "run_commands" /\ xpc = "returned"
    /\ outcome.kind = "ParseError"
    /\ terminal' = Append(terminal, Report)
    /\ rpc' = "stopped"
    /\ UNCHANGED <<last_exit_code, shutdown_code>>
    /\ UNCHANGED <<xpc, idx, carry, procs, ran, outcome>>
    /\ UNCHANGED <<parseVars, shellVars, callVars, floods>>

\* the arm of a parse error: the error is reported and the loop goes on
ReplParseError ==
    /\ rpc = "run_commands" /\ xpc = "returned"
    /\ outcome.kind = "ParseError"
    /\ terminal' = Append(terminal, Report)
    /\ rpc' = "read_line"
    /\ UNCHANGED <<last_exit_code, shutdown_code>>
    /\ UNCHANGED <<xpc, idx, carry, procs, ran, outcome>>
    /\ UNCHANGED <<parseVars, shellVars, callVars, floods>>

\* what read_line returns: a line, the end of the input (Shutdown(0)), or
\* another error
ReadLineEvents == {"line", "end_of_input", "error"}

\* the head of the loop: read_line; the end of the input leaves the loop with
\* shutdown_code None, another error with Some(1); an empty line is skipped,
\* any other line is handed to run_commands
ReadLine ==
    /\ rpc = "read_line"
    /\ \E ev \in ReadLineEvents :
        CASE ev = "end_of_input" ->
                /\ rpc' = "stopped"
                /\ UNCHANGED <<last_exit_code, shutdown_code>>
                /\ UNCHANGED <<parseVars, execVars, shellVars, callVars, floods>>
          [] ev = "error" ->
                /\ rpc' = "stopped"
                /\ shutdown_code' = SomeCode(1)
                /\ UNCHANGED last_exit_code
                /\ UNCHANGED <<parseVars, execVars, shellVars, callVars, floods>>
          [] OTHER ->
                \E l \in ReplLines \cup {<< >>} :
                    IF l = << >> THEN UNCHANGED vars
                    ELSE /\ args_raw' = l
                         /\ pc' = "process_args_inner"
                         /\ raw' = << >> /\ tokens' = << >> /\ stages' = << >>
                         /\ cmds' = << >> /\ err' = NoError
                         /\ xpc' = "idle" /\ idx' = 0 /\ carry' = Nothing
                         /\ procs' = << >> /\ ran' = {} /\ terminal' = << >>
                         /\ outcome' = NoOutcome
                         /\ rpc' = "run_commands"
                         /\ UNCHANGED <<last_exit_code, shutdown_code>>
                         /\ UNCHANGED <<shellVars, callVars, floods>>

\* the exit code of the shell's process once the loop has been left: the
\* shutdown code, 0 without one; the system keeps its low 8 bits
ProcessExitCode ==
    IF shutdown_code.kind = "None" THEN 0 ELSE shutdown_code.code % 256

NextRepl ==
    \/ NextExec
    \/ ReplMatch
    \/ ReplParseError
    \/ ReadLine

\* the REPL reads lines and runs them until it is shut down
SpecRepl == InitRepl /\ [][NextRepl]_vars

\* the executor has been handed a pipeline
Running == pc = "done" /\ err = NoError /\ xpc # "idle"

\* how the command of stage k resolves, read from the name alone
IsBuiltinStage(k) == cmds[k].command \in Supported
IsExternalStage(k) == cmds[k].command \notin Supported /\ cmds[k].command \in PathFiles
IsUnresolvable(k) == cmds[k].command \notin Supported /\ cmds[k].command \notin PathFiles

C19_WaitBeforeBuiltin ==
    Running =>
        /\ \A k \in ran :
                (k > 1 /\ IsBuiltinStage(k) /\ IsExternalStage(k - 1)) =>
                    /\ procs[k - 1].state = "waited"
                    /\ procs[k - 1].code = 0
        /\ ( /\ idx > 1 /\ IsBuiltinStage(idx) /\ IsExternalStage(idx - 1)
             /\ xpc \notin {"resolve", "wait"}
             /\ procs[idx - 1].code # 0 ) =>
                /\ xpc = "returned"
                /\ outcome = [kind |-> "ExitCode", code |-> procs[idx - 1].code]
                /\ procs[idx - 1].state = "waited"
                /\ \A j \in ran : j < idx
        /\ (xpc = "wait") => (IsBuiltinStage(idx) /\ idx \notin ran)

\* the process before a builtin has exited with code 2: the run has ended
\* with ExitCode(2), the builtin and the stage after it have not run
C19_Witness ==
    /\ Running /\ xpc = "returned"
    /\ outcome = [kind |-> "ExitCode", code |-> 2]
    /\ Len(cmds) = 3 /\ idx = 2 /\ IsBuiltinStage(2) /\ ran = {1}
    /\ procs[1].state = "waited"

\* the writes to the terminal made by `by`
WritesBy(by) == SelectSeq(terminal, LAMBDA w : w.by = by)

\* the stage's standard output is not redirected to a file
StdoutNotRedirected(k) ==
    cmds[k].redirect.kind = "None" \/ cmds[k].redirect.to # "Stdout"

Spawned(k) == k \in DOMAIN procs /\ procs[k].state # "none"

\* the stage carries a redirect of its standard output
StdoutRedirected(k) ==
    cmds[k].redirect.kind = "Some" /\ cmds[k].redirect.to = "Stdout"

\* C21 as stated: an external stage's stdout is the real terminal stream only
\* if the stage is the last one and carries no redirect at all
C21_AsStated ==
    Running =>
        \A k \in 1..Len(cmds) :
            (Spawned(k) /\ procs[k].stdout = "Terminal") =>
                (k = Len(cmds) /\ cmds[k].redirect = NoRedirect)

\* C21, amended: an external stage's stdout is the real terminal stream
\* exactly when the stage is the last one and carries no redirect of its
\* standard output (a redirect of its standard error leaves stdout alone);
\* it is the redirect's file exactly when the stage redirects its standard
\* output, and a fresh pipe in every other case
C21_StdoutOfExternalStage ==
    Running =>
        \A k \in 1..Len(cmds) :
            Spawned(k) =>
                /\ procs[k].stdout = "Terminal" <=>
                        (k = Len(cmds) /\ ~StdoutRedirected(k))
                /\ procs[k].stdout = "File" <=> StdoutRedirected(k)
                /\ procs[k].stdout = "Piped" <=>
                        (k < Len(cmds) /\ ~StdoutRedirected(k))

\* three spawned stages: the first writes to a pipe, the second to its
\* redirect's file, the last, which redirects its standard error, to the
\* terminal
C21_Witness ==
    /\ Running /\ Len(cmds) = 3
    /\ \A k \in 1..3 : Spawned(k)
    /\ procs[1].stdout = "Piped" /\ procs[2].stdout = "File"
    /\ cmds[3].redirect.kind = "Some" /\ procs[3].stdout = "Terminal"

\* the last stage of the pipeline
Last == Len(cmds)

\* what a pipeline that ends in a process with exit code n returns
OutcomeOfCode(n) == IF n = 0 THEN Success ELSE [kind |-> "ExitCode", code |-> n]

\* C22: when the last stage of a pipeline is an external process, the
\* executor does not return while that process runs, it has waited for it
\* when it returns, and the outcome is decided by the exit code of that
\* process alone, success for 0 and ExitCode(n) for a nonzero n, whatever
\* the exit codes of the external stages before it
C22_LastProcessDecides ==
    (Running /\ Spawned(Last)) =>
        /\ xpc \in {"finalize", "returned"}
        /\ xpc = "finalize" => (outcome = NoOutcome /\ carry = RunningProcess(Last))
        /\ xpc = "returned" =>
                /\ procs[Last].state = "waited"
                /\ outcome = OutcomeOfCode(procs[Last].code)

\* 'cat | cat': the first process has exited with code 2, the last one with
\* code 0, and the run has returned success
C22_Witness ==
    /\ Running /\ xpc = "returned" /\ Len(cmds) = 2
    /\ IsExternalStage(1) /\ IsExternalStage(2)
    /\ procs[1].state = "exited" /\ procs[1].code = 2
    /\ procs[2].state = "waited" /\ procs[2].code = 0
    /\ outcome = Success

\* the errors of a builtin that has been given a wrong argument list
ArgumentErrors == {"MissingArgument", "IncorrectArgumentType"}

\* the run has been ended by the builtin of stage idx
BuiltinAbort ==
    /\ Running /\ xpc = "returned"
    /\ outcome.kind \in {"Shutdown"} \cup ArgumentErrors

\* what holds of every state in which a builtin has ended the run
BuiltinAbortState ==
    BuiltinAbort =>
        /\ IsBuiltinStage(idx) /\ idx \in ran
        /\ \A k \in ran : k <= idx
        /\ \A k \in DOMAIN procs : k > idx => ~Spawned(k)
        /\ outcome = builtin_run(cmds[idx].command, cmds[idx].args)
        /\ rpc = "run_commands" =>
                (shutdown_code = NoShutdownCode /\ WritesBy("repl") = << >>)
        /\ outcome.kind = "Shutdown" =>
                /\ rpc # "read_line"
                /\ rpc = "stopped" => shutdown_code = SomeCode(outcome.code)
        /\ (outcome.kind \in ArgumentErrors /\ rpc # "run_commands") =>
                terminal[Len(terminal)] = Report

\* the REPL's step after a builtin has ended the run
BuiltinAbortReplStep ==
    (BuiltinAbort /\ rpc = "run_commands" /\ rpc' # rpc) =>
        IF outcome.kind = "Shutdown"
        THEN /\ rpc' = "stopped"
             /\ shutdown_code' = SomeCode(outcome.code)
             /\ UNCHANGED terminal
        ELSE /\ rpc' = "read_line"
             /\ terminal' = Append(terminal, Report)
             /\ UNCHANGED shutdown_code

\* C23: when a builtin stage signals Shutdown(n) or returns MissingArgument
\* or IncorrectArgumentType, the run ends at that stage, no later stage has
\* been started, and the builtin's error is what the run returns; on
\* Shutdown(n) the REPL's step is to leave its loop with shutdown code n; on
\* an argument error its step is to write the error to the terminal and to
\* go to read the next line, with its shutdown code untouched
C23_BuiltinErrorEndsTheRun ==
    []BuiltinAbortState /\ [][BuiltinAbortReplStep]_vars

\* 'exit 1 | cat': the first stage has shut the shell down, the second has
\* not been started, and the REPL has left its loop with code 1
C23_Witness ==
    /\ BuiltinAbort /\ Len(cmds) = 2 /\ idx = 1 /\ ran = {1}
    /\ cmds[2].command = Cat /\ ~Spawned(2)
    /\ outcome = [kind |-> "Shutdown", code |-> 1]
    /\ rpc = "stopped" /\ shutdown_code = SomeCode(1)

\* 'exit | cat': the first stage lacks its argument, the second has not been
\* started, the REPL has reported the error and is about to read the next
\* line
C23_ArgumentErrorReported ==
    /\ BuiltinAbort /\ Len(cmds) = 2 /\ idx = 1 /\ ran = {1}
    /\ cmds[2].command = Cat /\ ~Spawned(2)
    /\ outcome.kind = "MissingArgument"
    /\ rpc = "read_line" /\ terminal = <<Report>>

\* C24: when the executor returns from a pipeline run, on success and on
\* every abort path, every process it spawned during the run has been waited
\* on
C24_EveryProcessWaitedOn ==
    (Running /\ xpc = "returned") =>
        \A k \in 1..Len(cmds) : Spawned(k) => procs[k].state = "waited"

\* the processes that the executor does wait on before it returns: the one
\* that a builtin stage follows and the one of the last stage
C24_WaitedWhenCarried ==
    (Running /\ xpc = "returned") =>
        \A k \in 1..Len(cmds) :
            (Spawned(k) /\ (k = Last \/ (k + 1 \in ran /\ IsBuiltinStage(k + 1)))) =>
                procs[k].state = "waited"

\* stage k is an external stage that has been spawned and is immediately
\* followed by a builtin stage
FollowedByBuiltin(k) == Spawned(k) /\ k < Last /\ IsBuiltinStage(k + 1)

Written(j) == builtin_stdout(cmds[j].command, cmds[j].args)

\* the bytes that the process of stage k reads from a stdin that is not a
\* running process: a buffer from its read position to its end, nothing from
\* an empty stream
StdinBytes(k) ==
    LET s == procs[k].stdin IN
    IF s.kind = "Buffer" /\ s.pos = "start" THEN Written(s.stage) ELSE << >>

PipedStages == {k \in 1..Len(cmds) : Spawned(k) /\ procs[k].stdout = "Piped"}

\* a reader of the pipe of stage k observes the end of the stream: no write
\* end of the pipe is open
EndOfStream(k) == procs[k].wr = {}

\* C27: each pipe end has at most one owner at any time: the write end
\* belongs to the child that writes and never to the executor, the read end
\* to the executor until it is handed to the next child and from then on to
\* that child alone; so the pipe of a process that has exited is at its end
\* of stream, and a stage without a pipe has no pipe end
C27_OneOwnerPerPipeEnd ==
    Running =>
        \A k \in 1..Len(cmds) :
            /\ Cardinality(procs[k].wr) <= 1 /\ Cardinality(procs[k].rd) <= 1
            /\ "executor" \notin procs[k].wr
            /\ k \notin PipedStages => (procs[k].wr = {} /\ procs[k].rd = {})
            /\ k \in PipedStages =>
                    /\ procs[k].state = "running" <=> procs[k].wr = {"child"}
                    /\ procs[k].state # "running" => EndOfStream(k)
                    /\ (Spawned(k + 1) /\ procs[k + 1].stdin = RunningProcess(k)) =>
                            "executor" \notin procs[k].rd
                    /\ procs[k].rd = {"child"} =>
                            (Spawned(k + 1) /\ procs[k + 1].state = "running")
                    /\ procs[k].rd = {"executor"} =>
                            (carry = RunningProcess(k) /\ xpc # "returned")

\* 'cat | cat': the first process has exited while the second one is still
\* running and owns the read end of the pipe, which is at its end of stream
C27_Witness ==
    /\ Running /\ Len(cmds) = 2 /\ PipedStages = {1}
    /\ procs[1].state = "exited" /\ procs[2].state = "running"
    /\ procs[1].rd = {"child"} /\ EndOfStream(1)

\* the executor is at a wait: before a builtin, or at the finalization of a
\* carried process
AtWait ==
    \/ xpc = "wait"
    \/ xpc = "finalize" /\ carry.kind = "Process"

\* C28: spawning an external stage never blocks the executor: whatever the
\* processes spawned before are doing, the executor at a spawn, at a command
\* resolution or at a builtin body can take its step; it can be kept from its
\* step only at a wait, by the carried process still running; and the only
\* processes ever waited on are the one right before a builtin stage and the
\* one of the last stage
C28_SpawnNeverBlocks ==
    Running =>
        /\ xpc = "spawn" => ENABLED SpawnExternal
        /\ xpc = "resolve" => ENABLED Resolve
        /\ xpc = "builtin" => ENABLED RunBuiltin
        /\ AtWait =>
                /\ carry.kind = "Process"
                /\ ENABLED (WaitBeforeBuiltin \/ Finalize) <=>
                        procs[carry.stage].state # "running"
        /\ xpc = "wait" => IsBuiltinStage(idx)
        /\ \A k \in 1..Len(cmds) :
                procs[k].state = "waited" => (k = Last \/ IsBuiltinStage(k + 1))

\* 'cat | cat | cat': the three processes run at the same time
C28_Witness ==
    /\ Running /\ Len(cmds) = 3
    /\ \A k \in 1..3 : IsExternalStage(k) /\ procs[k].state = "running"

\* process_args has failed on the line
ParseFailed == pc = "done" /\ err # NoError

\* what holds of every state in which process_args has failed
ParseFailedLineNotRun ==
    ParseFailed =>
        /\ err \in ParseErrors
        /\ cmds = << >> /\ ran = {} /\ procs = << >>
        /\ \A n \in 1..Len(terminal) : terminal[n] = Report
        /\ xpc \in {"idle", "returned"}
        /\ xpc = "returned" => outcome = [kind |-> "ParseError", code |-> 0]
        /\ rpc = "run_commands" => (terminal = << >> /\ shutdown_code = NoShutdownCode)
        /\ rpc # "run_commands" => (xpc = "returned" /\ terminal = <<Report>>)

\* the REPL's step after process_args has failed
ParseFailedReplStep ==
    (ParseFailed /\ rpc = "run_commands" /\ rpc' # rpc) =>
        /\ rpc' = "read_line"
        /\ terminal' = <<Report>>
        /\ UNCHANGED <<last_exit_code, shutdown_code>>

\* C29: a parse-time error is fatal to the current line only: process_args
\* returns one of its six errors and no command, no stage of the line is
\* run, not even a well-formed one before the faulty one, no process is
\* spawned and nothing but the report of the error is written; the run
\* returns the parse error, and the REPL's step on it is to report it and
\* to go to read the next line, with its shutdown code untouched
C29_ParseErrorEndsTheLineOnly ==
    []ParseFailedLineNotRun /\ [][ParseFailedReplStep]_vars

\* 'echo | \|': the second stage is empty, process_args has failed with
\* MissingCommand, echo has not run, the error has been reported and the
\* REPL is about to read the next line
C29_Witness ==
    /\ ParseFailed /\ err = "MissingCommand"
    /\ args_raw = JoinWords(<<Echo, PipeToken, <<BS, PIPE>>>>)
    /\ ran = {} /\ rpc = "read_line" /\ terminal = <<Report>>

\* the exit builtin has shut the shell down
StoppedByExit == rpc = "stopped" /\ xpc = "returned" /\ outcome.kind = "Shutdown"

\* the shell has ended on the end of its input
StoppedByEndOfInput == rpc = "stopped" /\ shutdown_code = NoShutdownCode

\* the argument that exit was given
ExitArgument == cmds[idx].args[1]

EndedByLastProcess == Running /\ xpc = "returned" /\ Spawned(Last)

\* what holds of every state after a run that has returned ExitCode(n) or
\* success
LastStatusState ==
    (Running /\ xpc = "returned") =>
        /\ outcome.kind = "ExitCode" => outcome.code # 0
        /\ EndedByLastProcess => outcome = OutcomeOfCode(procs[Last].code)
        /\ (outcome.kind = "ExitCode" /\ rpc # "run_commands") =>
                last_exit_code = outcome.code
        /\ (outcome.kind = "Ok" /\ rpc # "run_commands") => last_exit_code = 0
        /\ (outcome.kind \in {"ExitCode", "Ok"} /\ rpc = "stopped") =>
                shutdown_code \in {NoShutdownCode, SomeCode(1)}

\* the REPL's step after a run that has returned ExitCode(n) or success
LastStatusReplStep ==
    ( /\ Running /\ xpc = "returned" /\ outcome.kind \in {"ExitCode", "Ok"}
      /\ rpc = "run_commands" /\ rpc' # rpc ) =>
        /\ rpc' = "read_line"
        /\ last_exit_code' = outcome.code
        /\ UNCHANGED <<terminal, shutdown_code>>

\* C31: a pipeline that ends with ExitCode(n) from a nonzero last process
\* sets the shell's last status to n and does not stop the REPL, which goes
\* on to read the next line; a pipeline that succeeds sets the last status
\* to 0
C31_LastStatus ==
    []LastStatusState /\ [][LastStatusReplStep]_vars

\* the last process of the line has exited with code 2: the last status is
\* 2, the REPL has not been stopped and is about to read the next line
C31_Witness ==
    /\ EndedByLastProcess /\ procs[Last].code = 2
    /\ outcome = [kind |-> "ExitCode", code |-> 2]
    /\ rpc = "read_line" /\ last_exit_code = 2
    /\ shutdown_code = NoShutdownCode

\* ------------------------------------------------------------- the builtins
\* a panic in place of a result value
Panicked == [kind |-> Panic, code |-> 0]

Type == <<"t", "y", "p", "e">>
Pwd == <<"p", "w", "d">>
Cd == <<"c", "d">>
History == <<"h", "i", "s", "t", "o", "r", "y">>

\* the texts of cd's message
CdPrefix == <<"c", "d", ":", " ">>
NoSuchFileOrDirectory ==
    <<":", " ", "N", "o", " ", "s", "u", "c", "h", " ", "f", "i", "l", "e", " ",
      "o", "r", " ", "d", "i", "r", "e", "c", "t", "o", "r", "y", "\n">>

\* cd::run, the path that the argument names: below HOME after a '~', the
\* argument itself after a '/', below the current directory otherwise
cd_new(p, new) ==
    CASE new[1] = TILDE -> PathJoin(Home, TrimStartMatches(new, TILDE))
      [] new[1] = SLASH -> new
      [] OTHER -> PathJoin(p, new)

\* cd::run in the directory p: rest[0] panics on an empty argument list and
\* the match on an empty argument; a directory becomes the current
\* directory, for anything else the message is written; both return Ok
cd_run(p, rest) ==
    IF rest = << >> \/ rest[1] = << >>
    THEN [res |-> Panicked, out |-> << >>, path |-> p]
    ELSE LET new == cd_new(p, rest[1])
         IN IF IsDir(new)
            THEN [res |-> Success, out |-> << >>, path |-> Canonicalize(new)]
            ELSE [res |-> Success,
                  out |-> CdPrefix \o TrimMatches(DebugFormat(new), DQ)
                              \o NoSuchFileOrDirectory,
                  path |-> p]

\* the directory of PATH
PathDir == <<SLASH, "b">>

\* btype::run: rest[0] panics on an empty argument list; a line about the
\* name is written
btype_run(rest) ==
    IF rest = << >> THEN [res |-> Panicked, out |-> << >>]
    ELSE LET com == rest[1]
         IN [res |-> Success,
             out |-> IF BuiltinsTryFrom(com) = "Ok"
                     THEN com \o <<" ", "i", "s", " ", "a", " ", "s", "h", "e", "l", "l",
                                   " ", "b", "u", "i", "l", "t", "i", "n", "\n">>
                     ELSE IF is_program(com) = "Ok"
                     THEN com \o <<" ", "i", "s", " ">> \o PathJoin(PathDir, com) \o <<"\n">>
                     ELSE com \o <<" ", "n", "o", "t", " ", "f", "o", "u", "n", "d", "\n">>]

\* pwd::run
pwd_run(p) == [res |-> Success, out |-> TrimMatches(DebugFormat(p), DQ) \o <<"\n">>]

\* ------------------------------------------------------------- the history
\* the digits of a number
DigitChar(d) ==
    CASE d = 0 -> "0" [] d = 1 -> "1" [] d = 2 -> "2" [] d = 3 -> "3"
      [] d = 4 -> "4" [] d = 5 -> "5" [] d = 6 -> "6" [] d = 7 -> "7"
      [] d = 8 -> "8" [] OTHER -> "9"

\* format!("{}", n)
RECURSIVE ToDecimal(_)
ToDecimal(n) ==
    IF n < 10 THEN <<DigitChar(n)>>
    ELSE ToDecimal(n \div 10) \o <<DigitChar(n % 10)>>

\* str::parse::<usize>, on the tokens of at most nine digits: an optional
\* plus sign and at least one digit
ParseUsize(tok) ==
    LET digits == IF tok # << >> /\ tok[1] = "+" THEN Tail(tok) ELSE tok
        m == IF digits = << >> THEN 1 ELSE Accumulate(digits, 0)
    IN IF m = 1 THEN [ok |-> FALSE, val |-> 0] ELSE [ok |-> TRUE, val |-> 0 - m]

\* str::lines: the text is cut behind every line feed; what follows the last
\* line feed is a line unless it is empty
RECURSIVE StrLines(_, _, _)
StrLines(s, cur, acc) ==
    IF s = << >> THEN (IF cur = << >> THEN acc ELSE Append(acc, cur))
    ELSE IF s[1] = "\n" THEN StrLines(Tail(s), << >>, Append(acc, cur))
    ELSE StrLines(Tail(s), Append(cur, s[1]), acc)

\* [String]::join("\n")
RECURSIVE JoinLines(_)
JoinLines(ls) ==
    IF ls = << >> THEN << >>
    ELSE IF Len(ls) = 1 THEN ls[1]
    ELSE ls[1] \o <<"\n">> \o JoinLines(Tail(ls))

\* the entries interleaved with as many line feeds: a line feed behind each
RECURSIVE Interleave(_)
Interleave(ls) ==
    IF ls = << >> THEN << >> ELSE ls[1] \o <<"\n">> \o Interleave(Tail(ls))

\* the results of the history's operations
MissingArgument == [kind |-> "MissingArgument", code |-> 0]
IncorrectArgumentType == [kind |-> "IncorrectArgumentType", code |-> 0]
IoError == [kind |-> "IoError", code |-> 0]

\* what an operation of the history leaves: its result, what it wrote to
\* stdout, the history, appended and the files
HistoryResult(res, out, h, a, fs) ==
    [res |-> res, out |-> out, history |-> h, appended |-> a, files |-> fs]

\* History::print_history
RECURSIVE PrintFrom(_, _)
PrintFrom(h, i) ==
    IF i > Len(h) THEN << >>
    ELSE <<" ", " ", " ", " ">> \o ToDecimal(i) \o <<" ">> \o h[i] \o <<"\n">>
            \o PrintFrom(h, i + 1)

print_history(h, count) ==
    LET s == IF Len(h) >= count THEN Len(h) - count ELSE 0
    IN PrintFrom(h, s + 1)

\* History::read_history_from_file: the lines of the file; opening a file
\* that does not exist fails
read_history_from_file(fs, file) ==
    IF file \in HistoryFiles /\ fs[file].exists
    THEN [ok |-> TRUE, lines |-> StrLines(fs[file].bytes, << >>, << >>)]
    ELSE [ok |-> FALSE, lines |-> << >>]

\* History::append_history_to_file: the file is created if it is missing;
\* its content, with a line feed pushed behind it unless it ends with one,
\* is written back followed by the entries from count on, a line feed
\* behind each
append_history_to_file(h, a, fs, file, count) ==
    IF file \notin HistoryFiles THEN HistoryResult(IoError, << >>, h, a, fs)
    ELSE LET s == fs[file].bytes
             ended == IF s # << >> /\ s[Len(s)] = "\n" THEN s ELSE s \o <<"\n">>
             it == Interleave(SubSeq(h, count + 1, Len(h)))
         IN HistoryResult(Success, << >>, h, Len(h),
                [fs EXCEPT ![file] = [exists |-> TRUE, bytes |-> ended \o it]])

\* History::write_history
write_history(h, a, fs, rest) ==
    IF rest = << >> THEN HistoryResult(MissingArgument, << >>, h, a, fs)
    ELSE IF rest[1] \notin HistoryFiles THEN HistoryResult(IoError, << >>, h, a, fs)
    ELSE HistoryResult(Success, << >>, h, Len(h),
            [fs EXCEPT ![rest[1]] = [exists |-> TRUE, bytes |-> JoinLines(h)]])

\* History::append_history
append_history(h, a, fs, rest) ==
    IF rest = << >> THEN HistoryResult(MissingArgument, << >>, h, a, fs)
    ELSE append_history_to_file(h, a, fs, rest[1], a)

\* History::read_history
read_history(h, a, fs, rest) ==
    IF rest = << >> THEN HistoryResult(MissingArgument, << >>, h, a, fs)
    ELSE LET r == read_history_from_file(fs, rest[1])
         IN IF r.ok
            THEN HistoryResult(Success, << >>, h \o r.lines, Len(h) + Len(r.lines), fs)
            ELSE HistoryResult(IoError, << >>, h, a, fs)

\* history::run
history_run(h, a, fs, rest) ==
    IF rest = << >> THEN HistoryResult(Success, print_history(h, Len(h)), h, a, fs)
    ELSE IF rest[1] = <<"-", "r">> THEN read_history(h, a, fs, Tail(rest))
    ELSE IF rest[1] = <<"-", "w">> THEN write_history(h, a, fs, Tail(rest))
    ELSE IF rest[1] = <<"-", "a">> THEN append_history(h, a, fs, Tail(rest))
    ELSE IF ParseUsize(rest[1]).ok
         THEN HistoryResult(Success, print_history(h, ParseUsize(rest[1]).val), h, a, fs)
         ELSE HistoryResult(IncorrectArgumentType, << >>, h, a, fs)

\* ------------------------------------------------- the builtins, one by one
\* the argument lists the builtins are run on: none, an empty string, and
\* a few more
EmptyString == << >>
ExitArgs == {<< >>, <<EmptyString>>, <<<<"1">>>>, <<<<"a">>>>}
EchoArgs == {<< >>, <<EmptyString>>, <<<<"a">>>>, <<<<"a">>, <<"b">>>>}
TypeArgs == {<< >>, <<EmptyString>>, <<Echo>>, <<Cat>>, <<Nope>>}
PwdArgs == {<< >>, <<EmptyString>>, <<<<"a">>>>}
CdChars == {SLASH, TILDE, DOT, "d", "h", "n", DQ, BS}
CdArgs == {<< >>} \cup {<<new>> : new \in SeqsUpTo(CdChars, MaxPathLen)}
HistoryArgs ==
    {<< >>, <<EmptyString>>, <<<<"1">>>>, <<<<"a">>>>,
     <<<<"-", "a">>>>, <<<<"-", "w">>>>, <<<<"-", "r">>>>}

\* the shell before a builtin is run: in one of the directories, with a
\* history of up to one line
InitBuiltin ==
    /\ args_raw = << >>
    /\ pc = "done"
    /\ raw = << >>
    /\ tokens = << >>
    /\ stages = << >>
    /\ cmds = << >>
    /\ err = NoError
    /\ ExecIdle
    /\ rpc = "run_commands"
    /\ last_exit_code = 0
    /\ shutdown_code = NoShutdownCode
    /\ path \in Dirs
    /\ history \in {<< >>, <<<<"a">>>>}
    /\ appended = 0
    /\ files = NoFiles
    /\ NoCallYet

\* the shell goes on running builtins until one shuts it down or panics
ShellAlive == bres.kind \notin {Panic, "Shutdown"}

\* the call and what came of it
Called(com, rest, res, out) ==
    /\ bcall' = [com |-> com, rest |-> rest]
    /\ bres' = res
    /\ bout' = out

\* builtin::run, Builtins::Exit
RunExit ==
    /\ ShellAlive
    /\ \E rest \in ExitArgs : Called(Exit, rest, exit_run(rest), << >>)
    /\ UNCHANGED <<parseVars, execVars, replVars, shellVars, floods>>

\* builtin::run, Builtins::Echo
RunEcho ==
    /\ ShellAlive
    /\ \E rest \in EchoArgs : Called(Echo, rest, Success, echo_run(rest))
    /\ UNCHANGED <<parseVars, execVars, replVars, shellVars, floods>>

\* builtin::run, Builtins::Type
RunType ==
    /\ ShellAlive
    /\ \E rest \in TypeArgs : Called(Type, rest, btype_run(rest).res, btype_run(rest).out)
    /\ UNCHANGED <<parseVars, execVars, replVars, shellVars, floods>>

\* builtin::run, Builtins::Pwd
RunPwd ==
    /\ ShellAlive
    /\ \E rest \in PwdArgs : Called(Pwd, rest, pwd_run(path).res, pwd_run(path).out)
    /\ UNCHANGED <<parseVars, execVars, replVars, shellVars, floods>>

\* builtin::run, Builtins::Cd
RunCd ==
    /\ ShellAlive
    /\ \E rest \in CdArgs :
        /\ Called(Cd, rest, cd_run(path, rest).res, cd_run(path, rest).out)
        /\ path' = cd_run(path, rest).path
    /\ UNCHANGED <<parseVars, execVars, replVars, history, appended, files, floods>>

\* builtin::run, Builtins::History
RunHistory ==
    /\ ShellAlive
    /\ \E rest \in HistoryArgs :
        LET r == history_run(history, appended, files, rest)
        IN /\ Called(History, rest, r.res, r.out)
           /\ history' = r.history
           /\ appended' = r.appended
           /\ files' = r.files
    /\ UNCHANGED <<parseVars, execVars, replVars, path, floods>>

NextBuiltin ==
    \/ RunExit
    \/ RunEcho
    \/ RunType
    \/ RunPwd
    \/ RunCd
    \/ RunHistory

\* the shell running one builtin after another
SpecBuiltin == InitBuiltin /\ [][NextBuiltin]_vars

\* C32: cd with a target that is not an existing directory writes
\* 'cd: <path>: No such file or directory' to its stdout target, where <path>
\* is the path that the target names, returns success and leaves the
\* shell's current directory unchanged
C32_CdNoSuchDirectory ==
    [][(ShellAlive /\ \E rest \in CdArgs :
            /\ rest # << >> /\ rest[1] # << >>
            /\ ~IsDir(cd_new(path, rest[1]))
            /\ bcall' = [com |-> Cd, rest |-> rest])
        => /\ bout' = CdPrefix \o cd_new(path, bcall'.rest[1]) \o NoSuchFileOrDirectory
           /\ bres' = Success
           /\ path' = path]_vars

\* the part of C32 about the state: cd on a target that is not an existing
\* directory returns success, writes a message that starts with 'cd: ' and
\* ends with ': No such file or directory', and leaves the current directory
\* unchanged
C32_CdLeavesTheDirectory ==
    [][(ShellAlive /\ \E rest \in CdArgs :
            /\ rest # << >> /\ rest[1] # << >>
            /\ ~IsDir(cd_new(path, rest[1]))
            /\ bcall' = [com |-> Cd, rest |-> rest])
        => /\ bres' = Success
           /\ path' = path
           /\ Len(bout') >= Len(CdPrefix) + Len(NoSuchFileOrDirectory)
           /\ SubSeq(bout', 1, Len(CdPrefix)) = CdPrefix
           /\ SubSeq(bout', Len(bout') - Len(NoSuchFileOrDirectory) + 1, Len(bout'))
                = NoSuchFileOrDirectory]_vars

\* the stage carries a redirect of its standard error
StderrRedirected(k) ==
    cmds[k].redirect.kind = "Some" /\ cmds[k].redirect.to = "Stderr"

\* the builtin of stage k has run and returned Ok
BuiltinRan(k) ==
    /\ IsBuiltinStage(k) /\ k \in ran
    /\ builtin_run(cmds[k].command, cmds[k].args) = Success

\* C33: a redirect targets only one stream of a builtin stage: with a stderr
\* redirect (2> or 2>>) the builtin's stdout is still the in-memory buffer,
\* which is the stdin of the external stage that follows and, for a last
\* stage, is written to the terminal at the finalization; with a stdout
\* redirect nothing is carried downstream: the stage that follows reads an
\* empty stream and the finalization writes nothing
C33_RedirectTargetsOneStream ==
    Running =>
        \A k \in 1..Len(cmds) :
            BuiltinRan(k) =>
                /\ StderrRedirected(k) =>
                    /\ new_builtin(cmds[k].redirect).stdout = "MemFile"
                    /\ (idx = k + 1 /\ xpc \in {"resolve", "spawn", "builtin"}) =>
                            carry = BuiltinBuffer(k)
                    /\ (k < Len(cmds) /\ Spawned(k + 1)) =>
                            /\ procs[k + 1].stdin = BuiltinBuffer(k)
                            /\ StdinBytes(k + 1) = Written(k)
                    /\ (k = Len(cmds) /\ xpc = "returned") =>
                            WritesBy("finalize") = <<[by |-> "finalize", stage |-> k]>>
                /\ StdoutRedirected(k) =>
                    /\ new_builtin(cmds[k].redirect).stdout = "File"
                    /\ (idx = k + 1 /\ xpc \in {"resolve", "spawn", "builtin"}) =>
                            carry = Nothing
                    /\ (k < Len(cmds) /\ Spawned(k + 1)) =>
                            /\ procs[k + 1].stdin = Nothing
                            /\ StdinBytes(k + 1) = << >>
                    /\ (k = Len(cmds) /\ xpc = "returned") =>
                            WritesBy("finalize") = << >>

\* 'echo 2> f | cat': cat has been spawned with the buffer that echo wrote
\* its line to as its stdin
C33_Witness ==
    /\ Running /\ Len(cmds) = 2 /\ Spawned(2)
    /\ cmds[1].command = Echo /\ StderrRedirected(1) /\ ~cmds[1].redirect.append
    /\ procs[2].stdin = BuiltinBuffer(1)
    /\ StdinBytes(2) = <<"\n">>

\* C34: an unquoted backslash-escaped pipe is literal text: a line of plain
\* characters, spaces and backslash pairs in which a pipe is escaped is not
\* split into stages at the pipe, and the pipe is a character of a word of
\* its only stage
C34_EscapedPipeIsLiteral ==
    (pc = "done" /\ Escaped(args_raw).ok /\ ~NoSuch(args_raw, {PIPE})) =>
        /\ err = NoError
        /\ Len(cmds) = 1
        /\ <<cmds[1].command>> \o cmds[1].args = Escaped(args_raw).args

\* the same on the lines in which no word is an escaped pipe alone
C34_EscapedPipeInsideAWord ==
    (pc = "done" /\ Escaped(args_raw).ok /\ ~NoSuch(args_raw, {PIPE})
                 /\ \A n \in 1..Len(Escaped(args_raw).args) :
                        Escaped(args_raw).args[n] # PipeToken) =>
        /\ err = NoError
        /\ Len(cmds) = 1
        /\ <<cmds[1].command>> \o cmds[1].args = Escaped(args_raw).args

\* ------------------------------------------- lines with a wide character
\* the lines of SpecWide: at least one character of each line is two bytes
\* wide
WideAlphabet == {"a", Wide, SQ, BS, SP, PIPE}
WideLines ==
    {s \in SeqsUpTo(WideAlphabet, MaxLen) :
        IsTrimmed(s) /\ \E k \in 1..Len(s) : s[k] = Wide}

InitWide ==
    /\ args_raw \in WideLines
    /\ pc = "process_args_inner"
    /\ raw = << >>
    /\ tokens = << >>
    /\ stages = << >>
    /\ cmds = << >>
    /\ err = NoError
    /\ ExecIdle
    /\ ReplStart

\* process_args on the lines with a wide character
SpecWide == InitWide /\ [][Next]_vars

\* a one-byte character of the class of Wide that no line holds
Narrowed == "w"

\* the string with every wide character replaced by the one-byte one: its
\* byte offsets are its character positions
Narrow(s) == [k \in 1..Len(s) |-> IF s[k] = Wide THEN Narrowed ELSE s[k]]
NarrowAll(ts) == [k \in 1..Len(ts) |-> Narrow(ts[k])]

\* C36: token boundaries are correct on lines with characters wider than one
\* byte: no slice of the line or of a token fails, split_args fails on such a
\* line exactly when it fails on the line with one-byte characters in their
\* place, and each raw token is the character span of its word, the span
\* that split_args emits on that line
C36_TokenBoundaries ==
    /\ err # Panic
    /\ Tokenized =>
        /\ split_args(Narrow(args_raw)).err = NoError
        /\ NarrowAll(raw) = split_args(Narrow(args_raw)).res
    /\ (pc = "done" /\ split_args(Narrow(args_raw)).err # NoError
                    /\ args_raw[1] # PIPE) =>
            err = split_args(Narrow(args_raw)).err

\* C35: for every input line process_args ends by returning a pipeline or
\* one of the six parse errors and never panics, and no token equal to the
\* pipe literal is left in a stage's argument list handed to find_redirect
C35_PipelineOrParseError ==
    /\ pc = "done" => err \in {NoError} \cup ParseErrors
    /\ err # Panic
    /\ \A k \in 1..Len(stages) : \A n \in 1..Len(stages[k]) : stages[k][n] # PipeToken

\* the part of C35 about the branches, on every line: the unescaper panics
\* only where its slice of the token fails, never in an unimplemented!() or
\* unreachable!() branch, and find_redirect is handed no pipe token; on the
\* lines of one-byte characters process_args never panics
C35_NoUnreachableBranch ==
    /\ \A k \in 1..Len(raw) :
            Unescape(raw[k]).err # NoError =>
                StrSlice(raw[k], 0, ProcessingRequired(raw[k], 0)) = SliceFailed
    /\ \A k \in 1..Len(stages) : \A n \in 1..Len(stages[k]) : stages[k][n] # PipeToken
    /\ (\A k \in 1..Len(args_raw) : args_raw[k] # Wide) => err # Panic

\* the builtin that was run got no argument, or an empty string as its first
EmptyArguments ==
    bcall # NoCall /\ (bcall.rest = << >> \/ bcall.rest[1] = EmptyString)

\* C38: running any builtin (exit, echo, type, pwd, cd, history) with an
\* empty argument list, or with an empty-string first argument, ends with a
\* result value (success, MissingArgument or IncorrectArgumentType) and never
\* crashes the shell
C38_EmptyArgumentsNeverCrash ==
    EmptyArguments =>
        bres.kind \in {"Ok", "MissingArgument", "IncorrectArgumentType"}

\* the same for the builtins other than cd, and other than type without an
\* argument
C38_ExitEchoPwdHistory ==
    (EmptyArguments /\ bcall.com # Cd /\ (bcall.com = Type => bcall.rest # << >>)) =>
        bres.kind \in {"Ok", "MissingArgument", "IncorrectArgumentType"}

\* --------------------------------------------------- the history's files
\* what the file f holds before the shell starts: it is missing, empty, one
\* line, or one line that no line feed ends
FilesAtStart ==
    {[NoFiles EXCEPT ![<<"f">>] = c] :
        c \in {NoFile,
               [exists |-> TRUE, bytes |-> << >>],
               [exists |-> TRUE, bytes |-> <<"x", "\n">>],
               [exists |-> TRUE, bytes |-> <<"x">>]}}

InitHistory ==
    /\ args_raw = << >>
    /\ pc = "done"
    /\ raw = << >>
    /\ tokens = << >>
    /\ stages = << >>
    /\ cmds = << >>
    /\ err = NoError
    /\ ExecIdle
    /\ rpc = "run_commands"
    /\ last_exit_code = 0
    /\ shutdown_code = NoShutdownCode
    /\ path = Root
    /\ HistoryNew
    /\ files \in FilesAtStart
    /\ NoCallYet

\* the REPL takes a line that runs no history command: the line is pushed
\* onto the history
EnterLine ==
    /\ Len(history) < MaxHistory
    /\ \E l \in {<<"a">>, <<"b">>} : history' = Append(history, l)
    /\ bcall' = NoCall /\ bout' = << >> /\ bres' = NoOutcome
    /\ UNCHANGED <<parseVars, execVars, replVars, path, appended, files, floods>>

\* the REPL takes the line 'history' followed by rest: the line is pushed
\* onto the history and the builtin runs
HistoryCommand(rest) ==
    LET h == Append(history, JoinWords(<<History>> \o rest))
        r == history_run(h, appended, files, rest)
    IN /\ Called(History, rest, r.res, r.out)
       /\ history' = r.history
       /\ appended' = r.appended
       /\ files' = r.files

\* history, history <n>
HistoryPrint ==
    /\ Len(history) < MaxHistory
    /\ \E rest \in {<< >>, <<<<"1">>>>} : HistoryCommand(rest)
    /\ UNCHANGED <<parseVars, execVars, replVars, path, floods>>

\* history -r <file>
HistoryRead ==
    /\ Len(history) < MaxHistory
    /\ \E f \in HistoryFiles : HistoryCommand(<<<<"-", "r">>, f>>)
    /\ UNCHANGED <<parseVars, execVars, replVars, path, floods>>

\* history -w <file>
HistoryWrite ==
    /\ Len(history) < MaxHistory
    /\ \E f \in HistoryFiles : HistoryCommand(<<<<"-", "w">>, f>>)
    /\ UNCHANGED <<parseVars, execVars, replVars, path, floods>>

\* history -a <file>
HistoryAppend ==
    /\ Len(history) < MaxHistory
    /\ \E f \in HistoryFiles : HistoryCommand(<<<<"-", "a">>, f>>)
    /\ UNCHANGED <<parseVars, execVars, replVars, path, floods>>

NextHistory ==
    \/ EnterLine
    \/ HistoryPrint
    \/ HistoryRead
    \/ HistoryWrite
    \/ HistoryAppend

\* the shell taking lines and history commands
SpecHistory == InitHistory /\ [][NextHistory]_vars

\* the lines read back from the file f
FileLines(fs, f) == StrLines(fs[f].bytes, << >>, << >>)

\* this step is 'history -a f'
AppendStep(f) ==
    /\ Len(history') = Len(history) + 1
    /\ bcall' = [com |-> History, rest |-> <<<<"-", "a">>, f>>]

\* C39: 'history -a <file>' leaves the file holding its previous lines
\* followed by exactly the entries added to the history since the last -a,
\* -w or -r, one entry per line and nothing else, also when the file was
\* empty or did not exist
C39_AppendAddsTheNewEntries ==
    [][\A f \in HistoryFiles :
        AppendStep(f) =>
            /\ bres' = Success
            /\ FileLines(files', f)
                = FileLines(files, f) \o SubSeq(history', appended + 1, Len(history'))
            /\ appended' = Len(history')]_vars

\* the same for a file that held at least one byte
C39_AppendToAFileThatHoldsBytes ==
    [][\A f \in HistoryFiles :
        (AppendStep(f) /\ files[f].bytes # << >>) =>
            /\ bres' = Success
            /\ FileLines(files', f)
                = FileLines(files, f) \o SubSeq(history', appended + 1, Len(history'))
            /\ appended' = Len(history')]_vars

\* after 'history -a f', a second append of no new entry leaves the file as
\* it is
C39_AppendOfNothing ==
    \A f \in HistoryFiles :
        (bcall = [com |-> History, rest |-> <<<<"-", "a">>, f>>] /\ bres = Success) =>
            append_history_to_file(history, appended, files, f, appended).files = files

\* ------------------------------------------- processes that fill a pipe
\* the stages of the lines whose runs are followed to their end
LiveStageWordLists == { <<Echo>>, <<Cat>>, <<Cat, <<"2", ">">>, <<"f">>>>, <<Nope>> }

LiveLines ==
    {JoinWords(PipelineWords(ss)) :
        ss \in UNION {[1..n -> LiveStageWordLists] : n \in 1..MaxLiveStages}}

\* process_args has returned the pipeline of one of the lines; any process
\* may write more than a pipe holds to any of its streams
InitLive ==
    /\ args_raw \in LiveLines
    /\ pc = "done"
    /\ raw = split_args(args_raw).res
    /\ tokens = post_process_args(raw).res
    /\ stages = split_pipeline(tokens)
    /\ cmds = [k \in 1..Len(stages) |-> CommandNew(stages[k])]
    /\ err = NoError
    /\ xpc = "idle"
    /\ idx = 0
    /\ carry = Nothing
    /\ procs = << >>
    /\ ran = {}
    /\ terminal = << >>
    /\ outcome = NoOutcome
    /\ floods \in SUBSET ((1..MaxLiveStages) \X Streams)
    /\ ReplStart

\* the steps of the executor and of the processes
NextLive ==
    \/ StartPipeline
    \/ Resolve
    \/ WaitBeforeBuiltin
    \/ RunBuiltin
    \/ SpawnExternal
    \/ ProcessExit
    \/ Finalize

\* the executor and the processes keep going: the executor takes its next
\* step when it can, and a process exits once all that it writes has been
\* accepted
Fairness ==
    /\ WF_vars(StartPipeline)
    /\ WF_vars(Resolve)
    /\ WF_vars(WaitBeforeBuiltin)
    /\ WF_vars(RunBuiltin)
    /\ WF_vars(SpawnExternal)
    /\ WF_vars(ProcessExit)
    /\ WF_vars(Finalize)

\* the pipeline of a line is run to its end
SpecLive == InitLive /\ [][NextLive]_vars /\ Fairness

\* C37: every pipeline run eventually finishes, provided each external
\* process exits once all the output it wants to write has been accepted
C37_EveryRunFinishes == Running ~> (xpc = "returned")

\* the same for the runs in which no process writes more than a pipe holds
\* to a pipe that nobody reads: to the stdout pipe of a stage that a builtin
\* follows, or to a stderr pipe
NoFloodedPipe ==
    \A k \in 1..Len(cmds) :
        /\ <<k, "stdout">> \in floods => ~(k < Len(cmds) /\ IsBuiltinStage(k + 1))
        /\ <<k, "stderr">> \in floods =>
                new_program(cmds[k].redirect, k = Len(cmds)).stderr # "Piped"

C37_RunsWithoutAFloodedPipeFinish ==
    (Running /\ NoFloodedPipe) ~> (xpc = "returned")

====
